---- MODULE Spec2Model ----
(***************************************************************************)
(* State-machine model of the gocognigo server: the LRU index cache, the   *)
(* streamed ingestion pipeline (extraction workers, consumer, per-file     *)
(* embedding tasks, Index.EmbedAndIndex) and the HTTP handlers that start, *)
(* cancel and disturb an ingestion run.                                    *)
(*                                                                         *)
(* The module holds several specifications over one set of variables; each *)
(* specification moves only the variables of the component it is about.    *)
(*   SpecLRU      lruCache under get / put / has / delete                  *)
(*   SpecLRUVal   the same operations, with two distinct cached values     *)
(*   SpecExtract  the extraction stage of runIngestion                     *)
(*   SpecProgress the consumer, the embedding tasks and EmbedAndIndex, with *)
(*                cancellation and provider failures, on small runs        *)
(*   SpecEmbed    the same stage, undisturbed, on runs of seven batches    *)
(*   SpecServer   the handlers and runIngestion, one file per run          *)
(*   SpecQuery    activation, background loading and queries over ready    *)
(*                projects, one more than the cache holds                  *)
(*   SpecJob      the ingest and cancel handlers and runIngestion          *)
(*   SpecSummary  the embedding stage of runs started with an OpenAI key,  *)
(*                with the summary tasks of the files                      *)
(*   SpecLoad     activation and background loading when loading can fail  *)
(*   SpecMessages concurrent ProjectStore.SaveMessage calls on one chat    *)
(*   SpecSearch   Retriever.Search: rank fusion and parent-page dedup      *)
(*   SpecChunk    Index.ChunkPages over the pages of two files             *)
(*   SpecVectors  Index.SaveVectors, then LoadVectors, on a used directory *)
(*   SpecPDF      extractor.ExtractPDF with OCR, and the chunking of its   *)
(*                page list                                                *)
(*   SpecCosine   cosineSimilarity on short vectors                        *)
(*   SpecWrite    the write loop of one batch of EmbedAndIndex             *)
(*   SpecLocks    the handlers and goroutines through s.mu, the cache      *)
(*                mutex and the IngestStatus lock                          *)
(*   SpecResults  the extraction tasks, the closer and the consumer loop   *)
(*                on resultsCh, with fair scheduling                       *)
(***************************************************************************)
EXTENDS Integers, Sequences, FiniteSets, Bags, TLC

VARIABLES
    indexCache,   \* lruCache: [maxSize, items (keys of the map), order (list, front = MRU)]
    lruRet,       \* what the last cache operation returned
    touched,      \* history: present keys, least recently touched (put / get hit) first
    streak,       \* history: the distinct keys put in a row since the last get / delete
    ingestStatus, \* IngestStatus: Phase, FilesTotal, FilesDone, ChunksTotal, ChunksDone
    ctxDone,      \* the ingestion run's context has been cancelled
    nFiles,       \* len(files) of the run
    extractTask,  \* per file: the extraction goroutine (pc, local newDone, history flags)
    filesDone,    \* runIngestion's atomic counter filesDone
    extractSem,   \* number of tokens held in the channel extractSem
    resultsCh,    \* number of results sent on resultsCh
    chClosed,     \* resultsCh has been closed by the closer goroutine
    extracted,    \* results sent on resultsCh and not yet received, in send order
    consumer,     \* the consumer loop of runIngestion: pc, chunks of the current file, anyFileOk, fileResults
    chunksTotal,  \* runIngestion's atomic counter chunksTotal
    idxLen,       \* len(idx.Chunks) of the run's Index
    idxMuHeld,    \* idx.mu is held by a batch that is appending
    calls,        \* the EmbedAndIndex calls of the per-file embedding tasks
    runErr,       \* runIngestion's firstErr (set once)
    embedFails,   \* Embedder failures the provider may still produce
    permanentErr, \* the provider rejects every Embed call (bad key, bad request)
    openAIKey,    \* runIngestion's openAIKey ("" = none): summaries are generated with it
    summaryTasks, \* the summary goroutines of the run: [file, st]
    msgsFile, \* the messages file <conv>.json of one conversation: the list it holds
    savers, \* the goroutines of handleQuery that save the messages of an answered query
    search, \* one Retriever.Search call: the two rankings, topK, the fused list, the results
    docFiles, \* the extracted files of a run: per file its docChunks (pages: Document, PageNumber, Text)
    fileChunks, \* per file already chunked: the fileChunks that idx.ChunkPages returned
    vectorFiles, \* the files vectors.gob and vectors.json of one project: [gob, json]
    saveCall, \* one idx.SaveVectors call: pc, the Index it saves, whether it returned an error
    loadCall, \* one idx.LoadVectors call on a fresh Index: pc, the Index after it, whether it returned an error
    pdfFile, \* the PDF given to ExtractPDF and the OCR configuration: [opens, pages, cfg]
    pdfCall, \* one ExtractPDF call: pc, chunks, emptyPages, the returned list and error
    cosCall, \* one cosineSimilarity call: the vectors a and b, pc, the returned value
    batchWrite, \* one batch goroutine of EmbedAndIndex from the write of its results on
    holders, \* who holds the server lock, the cache mutex and the IngestStatus lock
    tasks, \* the goroutines followed through their locks: what each runs and how far it is
    sent, \* how many results each extraction task has sent on resultsCh
    received, \* how many results the consumer loop has received
    rangeLoop, \* where the loop over resultsCh is
    closes, \* how many times resultsCh was closed
    activeProjectID, \* Server.activeProjectID (NoProject = "")
    activeIndex,  \* Server.activeIndex: the Index in the active slot (NoIndex = nil)
    ingestCancel, \* Server.ingestCancel: the run whose context it cancels (NoRun = nil)
    projects,     \* ProjectStore: per project exists, Status, ChunkCount, and whether uploads exist
    vectors,      \* per project: the run that wrote the vectors file on disk (NoRun = no file)
    runs,         \* the runIngestion goroutines started so far
    reqs,         \* the HTTP requests in flight: a bag of [kind, project, pc]
    issued,       \* number of requests received so far
    closed,       \* the Indexes on which Close() has been called
    queryRet,     \* what the last answered query request got: project, Index, outcome
    indexLoading  \* Server.indexLoading

lruVars == <<indexCache, lruRet, touched, streak>>

exVars == <<ctxDone, nFiles, extractTask, filesDone, extractSem, resultsCh, chClosed>>

embVars == <<extracted, consumer, chunksTotal, idxLen, idxMuHeld, calls, runErr, embedFails,
            permanentErr, openAIKey, summaryTasks>>

\* the state of the components that the server's specifications leave alone
offVars == <<msgsFile, savers,
            search,
            docFiles, fileChunks,
            vectorFiles, saveCall, loadCall,
            pdfFile, pdfCall,
            cosCall,
            batchWrite,
            holders, tasks,
            sent, received, rangeLoop, closes>>

srvVars == <<activeProjectID, activeIndex, ingestCancel, projects, vectors, runs, reqs, issued,
            closed, queryRet, indexLoading, offVars>>

vars == <<indexCache, lruRet, touched, streak, ingestStatus,
          ctxDone, nFiles, extractTask, filesDone, extractSem, resultsCh, chClosed,
          extracted, consumer, chunksTotal, idxLen, idxMuHeld, calls, runErr, embedFails,
          permanentErr, openAIKey, summaryTasks,
          msgsFile, savers,
          search,
          docFiles, fileChunks,
          vectorFiles, saveCall, loadCall,
          pdfFile, pdfCall,
          cosCall,
          batchWrite,
          holders, tasks,
          sent, received, rangeLoop, closes,
          activeProjectID, activeIndex, ingestCancel, projects, vectors, runs, reqs, issued,
          closed, queryRet, indexLoading>>

(***************************************************************************)
(* Bounds and program constants                                            *)
(***************************************************************************)
maxCacheSize == 5

NumKeys == 6

\* capacity of extractSem
extractConcurrency == 4

MaxFiles == 5

NumProjects == 2

MaxRequests == 3

Projects == 1..NumProjects

\* the empty project id, the nil Index and the nil cancel function
NoProject == 0

NoIndex == 0

NoRun == 0

CacheKeys == 1..NumKeys

IndexVals == {"idxA", "idxB"}

NoValue == "nil"

\* the result of a call that returns nothing (put, delete)
Void == [ok |-> FALSE, value |-> "void"]

(***************************************************************************)
(* container/list helpers used by lruCache                                 *)
(***************************************************************************)
SeqRange(s) == {s[i] : i \in 1..Len(s)}

RemoveKey(order, k) == SelectSeq(order, LAMBDA e : e.key # k)

EntryOf(order, k) == CHOOSE e \in SeqRange(order) : e.key = k

MoveToFront(order, k) == <<EntryOf(order, k)>> \o RemoveKey(order, k)

OrderKeys(order) == [i \in 1..Len(order) |-> order[i].key]

newLRUCache(maxSize) == [maxSize |-> maxSize, items |-> {}, order |-> <<>>]

(***************************************************************************)
(* lruCache.get / put / delete / has as functions of the cache value       *)
(***************************************************************************)
lruGetNoPromote(c, k) == c

lruGet(c, k) ==
    IF k \in c.items
    THEN [c EXCEPT !.order = MoveToFront(@, k)]
    ELSE c

lruGetResult(c, k) ==
    IF k \in c.items
    THEN [ok |-> TRUE, value |-> EntryOf(c.order, k).value]
    ELSE [ok |-> FALSE, value |-> NoValue]

lruPutEvictFront(c, k, v) ==
    IF k \in c.items
    THEN [c EXCEPT !.order = <<[key |-> k, value |-> v]>> \o RemoveKey(@, k)]
    ELSE LET evict == Len(c.order) >= c.maxSize /\ Len(c.order) > 0
             kept  == IF evict THEN Tail(c.order) ELSE c.order
             keys  == IF evict THEN c.items \ {Head(c.order).key} ELSE c.items
         IN  [c EXCEPT !.order = <<[key |-> k, value |-> v]>> \o kept,
                       !.items = keys \cup {k}]

lruPut(c, k, v) ==
    IF k \in c.items
    THEN \* MoveToFront(el); el.Value.value = value
         [c EXCEPT !.order = <<[key |-> k, value |-> v]>> \o RemoveKey(@, k)]
    ELSE \* evict order.Back() when at capacity, then PushFront
         LET evict == Len(c.order) >= c.maxSize /\ Len(c.order) > 0
             kept  == IF evict THEN SubSeq(c.order, 1, Len(c.order) - 1) ELSE c.order
             keys  == IF evict THEN c.items \ {c.order[Len(c.order)].key} ELSE c.items
         IN  [c EXCEPT !.order = <<[key |-> k, value |-> v]>> \o kept,
                       !.items = keys \cup {k}]

lruDelete(c, k) ==
    IF k \in c.items
    THEN [c EXCEPT !.order = RemoveKey(@, k), !.items = @ \ {k}]
    ELSE c

lruHas(c, k) == k \in c.items

(***************************************************************************)
(* History of touches, kept apart from the list the code maintains         *)
(***************************************************************************)
Touch(t, k, present) ==
    SelectSeq(SelectSeq(t, LAMBDA x : x # k) \o <<k>>, LAMBDA x : x \in present)

Forget(t, present) == SelectSeq(t, LAMBDA x : x \in present)

(***************************************************************************)
(* Cache operations as actions                                             *)
(***************************************************************************)
CacheGet(k) ==
    /\ indexCache' = lruGet(indexCache, k)
    /\ lruRet' = lruGetResult(indexCache, k)
    /\ touched' = IF lruGetResult(indexCache, k).ok
                  THEN Touch(touched, k, indexCache'.items)
                  ELSE Forget(touched, indexCache'.items)

CachePut(k, v) ==
    /\ indexCache' = lruPut(indexCache, k, v)
    /\ lruRet' = Void
    /\ touched' = Touch(touched, k, indexCache'.items)

CacheHas(k) ==
    /\ indexCache' = indexCache
    /\ lruRet' = [ok |-> lruHas(indexCache, k), value |-> NoValue]
    /\ touched' = Forget(touched, indexCache'.items)

CacheDelete(k) ==
    /\ indexCache' = lruDelete(indexCache, k)
    /\ lruRet' = Void
    /\ touched' = Forget(touched, indexCache'.items)

InitLRU ==
    /\ indexCache = newLRUCache(maxCacheSize)
    /\ lruRet = Void
    /\ touched = <<>>
    /\ streak = <<>>

\* IngestStatus before any run (the zero value after reset)
IdleStatus ==
    [Phase |-> "idle", FilesTotal |-> 0, FilesDone |-> 0, ChunksTotal |-> 0, ChunksDone |-> 0]

\* no run exists: nothing of the pipeline is allocated
NoExtraction ==
    /\ ctxDone = FALSE
    /\ nFiles = 0
    /\ extractTask = <<>>
    /\ filesDone = 0
    /\ extractSem = 0
    /\ resultsCh = 0
    /\ chClosed = FALSE

\* no consumer, no Index under construction, no embedding task
NoEmbedding ==
    /\ extracted = <<>>
    /\ consumer = [pc |-> "none", cur |-> 0, anyFileOk |-> FALSE, fileResults |-> <<>>]
    /\ chunksTotal = 0
    /\ idxLen = 0
    /\ idxMuHeld = FALSE
    /\ calls = <<>>
    /\ runErr = "nil"
    /\ embedFails = 0
    /\ permanentErr = FALSE
    /\ openAIKey = ""
    /\ summaryTasks = <<>>

\* no query request has been answered yet
NoQuery == [project |-> NoProject, idx |-> NoIndex, outcome |-> "none"]

\* the server after start-up: no project active, every project uploaded and not ingested
\* no conversation has messages, no SaveMessage is running
NoMessages ==
    /\ msgsFile = <<>>
    /\ savers = <<>>

\* no Search call is running
NoSearch ==
    /\ search = [pc |-> "none", dense |-> <<>>, lexical |-> <<>>, topK |-> 0, fused |-> <<>>, results |-> <<>>]

\* no extracted file is waiting to be chunked
NoChunking ==
    /\ docFiles = <<>>
    /\ fileChunks = <<>>

\* no SaveVectors or LoadVectors call is running
NoVectorFiles ==
    /\ vectorFiles = <<>>
    /\ saveCall = <<>>
    /\ loadCall = <<>>

\* no ExtractPDF call is running
NoPDF ==
    /\ pdfFile = <<>>
    /\ pdfCall = <<>>

\* no cosineSimilarity call is running
NoCosine ==
    /\ cosCall = <<>>

\* no batch is being written
NoBatchWrite ==
    /\ batchWrite = <<>>

\* no goroutine is followed through its locks
NoLockTasks ==
    /\ holders = <<>>
    /\ tasks = <<>>

\* the results channel is not followed
NoResults ==
    /\ sent = <<>>
    /\ received = 0
    /\ rangeLoop = ""
    /\ closes = 0

\* every component but k is as the server start leaves it
Apart(k) ==
    /\ k = "messages" \/ NoMessages
    /\ k = "search" \/ NoSearch
    /\ k = "chunking" \/ NoChunking
    /\ k = "vectors" \/ NoVectorFiles
    /\ k = "pdf" \/ NoPDF
    /\ k = "cosine" \/ NoCosine
    /\ k = "write" \/ NoBatchWrite
    /\ k = "locks" \/ NoLockTasks
    /\ k = "results" \/ NoResults

serverOwn == <<activeProjectID, activeIndex, ingestCancel, projects, vectors, runs, reqs, issued,
              closed, queryRet, indexLoading>>

\* the Server fields at start, with the projects of the model created
ServerAtStart ==
    /\ activeProjectID = NoProject
    /\ activeIndex = NoIndex
    /\ ingestCancel = NoRun
    /\ projects = [p \in Projects |->
                     [exists |-> TRUE, Status |-> "upload", ChunkCount |-> 0, hasFiles |-> TRUE]]
    /\ vectors = [p \in Projects |-> NoRun]
    /\ runs = <<>>
    /\ reqs = EmptyBag
    /\ issued = 0
    /\ closed = {}
    /\ queryRet = NoQuery
    /\ indexLoading = FALSE

InitServer == ServerAtStart /\ Apart("")

InitCacheOnly ==
    InitLRU /\ ingestStatus = IdleStatus /\ NoExtraction /\ NoEmbedding /\ InitServer

nonLruVars == <<ingestStatus, exVars, embVars, srvVars>>

\* SpecLRU: keys only (one cached value), with the streak of distinct puts recorded
LruGetStep ==
    \E k \in CacheKeys : CacheGet(k) /\ streak' = <<>> /\ UNCHANGED nonLruVars

LruPutStep ==
    \E k \in CacheKeys :
        /\ CachePut(k, "idxA")
        /\ streak' = IF k \in SeqRange(streak) \/ Len(streak) >= maxCacheSize + 1
                     THEN <<k>>
                     ELSE Append(streak, k)
        /\ UNCHANGED nonLruVars

LruHasStep ==
    \E k \in CacheKeys : CacheHas(k) /\ UNCHANGED <<streak, nonLruVars>>

LruDeleteStep ==
    \E k \in CacheKeys : CacheDelete(k) /\ streak' = <<>> /\ UNCHANGED nonLruVars

NextLRU == LruGetStep \/ LruPutStep \/ LruHasStep \/ LruDeleteStep

SpecLRU == InitCacheOnly /\ [][NextLRU]_vars

\* SpecLRUVal: the same operations with two distinguishable cached values
ValGetStep == \E k \in CacheKeys : CacheGet(k) /\ UNCHANGED <<streak, nonLruVars>>

ValPutStep == \E k \in CacheKeys, v \in IndexVals : CachePut(k, v) /\ UNCHANGED <<streak, nonLruVars>>

ValHasStep == \E k \in CacheKeys : CacheHas(k) /\ UNCHANGED <<streak, nonLruVars>>

ValDeleteStep == \E k \in CacheKeys : CacheDelete(k) /\ UNCHANGED <<streak, nonLruVars>>

NextLRUVal == ValGetStep \/ ValPutStep \/ ValHasStep \/ ValDeleteStep

SpecLRUVal == InitCacheOnly /\ [][NextLRUVal]_vars

(***************************************************************************)
(* Claims about the index cache                                            *)
(***************************************************************************)
Reverse(s) == [i \in 1..Len(s) |-> s[Len(s) + 1 - i]]

CacheWellFormed ==
    /\ Cardinality(indexCache.items) <= maxCacheSize
    /\ Len(indexCache.order) <= maxCacheSize
    /\ indexCache.items = SeqRange(OrderKeys(indexCache.order))
    /\ Cardinality(indexCache.items) = Len(indexCache.order)

PutOfNewKeyEvictsLRU ==
    \A k \in CacheKeys \ indexCache.items :
        (lruRet' = Void /\ touched' # touched /\ CachePut(k, "idxA")) =>
            IF Cardinality(indexCache.items) = maxCacheSize
            THEN /\ indexCache'.items = (indexCache.items \ {Head(touched)}) \cup {k}
                 /\ Head(touched) \in indexCache.items
                 /\ Cardinality(indexCache'.items) = maxCacheSize
            ELSE indexCache'.items = indexCache.items \cup {k}

SixDistinctPuts ==
    Len(streak) = maxCacheSize + 1 =>
        /\ streak[1] \notin indexCache.items
        /\ \A i \in 2..(maxCacheSize + 1) : streak[i] \in indexCache.items

\* C9: after any sequence of get, put, has and delete the cache holds at most 5
\* entries; a put of a new key into a full cache evicts exactly one entry, the one
\* least recently touched by put or get; after 6 distinct puts with no intervening
\* get the first-inserted key is absent and the other five are present.
C9_CacheBoundAndLRUEviction ==
    [][/\ CacheWellFormed /\ CacheWellFormed'
       /\ SixDistinctPuts /\ SixDistinctPuts'
       /\ PutOfNewKeyEvictsLRU]_vars

C9_Witness ==
    /\ Len(streak) = maxCacheSize + 1
    /\ lruRet = Void
    /\ Cardinality(indexCache.items) = maxCacheSize

\* the key a put or a get hit has just touched
JustTouched(k) == Len(touched') > 0 /\ touched'[Len(touched')] = k

GetHitPromotes ==
    lruRet'.value \in IndexVals =>
        \A k \in indexCache.items :
            (JustTouched(k) /\ CacheGet(k)) =>
                /\ indexCache'.items = indexCache.items
                /\ Head(indexCache'.order) = EntryOf(indexCache.order, k)
                /\ RemoveKey(indexCache'.order, k) = RemoveKey(indexCache.order, k)
                /\ lruRet'.value = EntryOf(indexCache.order, k).value

PutOfPresentKeyReplaces ==
    lruRet' = Void =>
        \A k \in indexCache.items :
            JustTouched(k) =>
                \A v \in IndexVals :
                    CachePut(k, v) =>
                        /\ indexCache'.items = indexCache.items
                        /\ Head(indexCache'.order) = [key |-> k, value |-> v]
                        /\ RemoveKey(indexCache'.order, k) = RemoveKey(indexCache.order, k)

\* only has and a get of an absent key return no value
HasAndMissChangeNothing ==
    lruRet'.value = NoValue =>
        /\ indexCache' = indexCache
        /\ touched' = touched

\* the list the code keeps is the recency order: its back is the next entry evicted
OrderIsRecency == OrderKeys(indexCache.order) = Reverse(touched)

\* C10: get(k) on a present key makes k the most-recently-used entry (the last of
\* the current entries to be evicted); put of a present key replaces its value and
\* promotes it without evicting anything; has(k) and a get of an absent key leave
\* the key set and the recency order unchanged.
C10_PromotionAndFrame ==
    [][/\ OrderIsRecency /\ OrderIsRecency'
       /\ GetHitPromotes
       /\ PutOfPresentKeyReplaces
       /\ HasAndMissChangeNothing]_vars

C10_Witness ==
    /\ lruRet.ok
    /\ lruRet.value = "idxB"
    /\ Len(indexCache.order) = maxCacheSize
    /\ Head(indexCache.order).value = "idxB"

(***************************************************************************)
(* runIngestion, extraction stage: one goroutine per file, bounded by the  *)
(* channel extractSem; the closer goroutine closes resultsCh               *)
(***************************************************************************)
Files == 1..nFiles

NewTask == [pc |-> "select", newDone |-> 0, ran |-> FALSE, sawCancel |-> FALSE]

\* the tasks that hold a slot of extractSem
InFlight == {f \in Files : extractTask[f].pc \in {"extract", "bump", "write", "release"}}

\* handleIngest has reset IngestStatus for a run over n files; the tasks are spawned
StartExtraction(n) ==
    /\ nFiles = n
    /\ extractTask = [f \in 1..n |-> NewTask]
    /\ ingestStatus = [IdleStatus EXCEPT !.Phase = "processing", !.FilesTotal = n]
    /\ ctxDone = FALSE
    /\ filesDone = 0
    /\ extractSem = 0
    /\ resultsCh = 0
    /\ chClosed = FALSE

\* cancel() of the run's context
CancelCtx ==
    /\ ~ctxDone
    /\ ctxDone' = TRUE

\* a variant of the select's cancel branch that carries on without a slot
ExSelectCancelFallsThrough(f) ==
    /\ extractTask[f].pc = "select"
    /\ ctxDone
    /\ resultsCh' = resultsCh + 1
    /\ extractTask' = [extractTask EXCEPT ![f].pc = "extract", ![f].sawCancel = TRUE]
    /\ UNCHANGED <<ctxDone, nFiles, filesDone, extractSem, chClosed, ingestStatus>>

\* select, case <-ctx.Done(): send the error result and return
ExSelectCancel(f) ==
    /\ extractTask[f].pc = "select"
    /\ ctxDone
    /\ resultsCh' = resultsCh + 1
    /\ extractTask' = [extractTask EXCEPT ![f].pc = "done", ![f].sawCancel = TRUE]
    /\ UNCHANGED <<ctxDone, nFiles, filesDone, extractSem, chClosed, ingestStatus>>

\* select, case extractSem <- struct{}{}: blocks while the channel is full
ExAcquire(f) ==
    /\ extractTask[f].pc = "select"
    /\ extractSem < extractConcurrency
    /\ extractSem' = extractSem + 1
    /\ extractTask' = [extractTask EXCEPT ![f].pc = "extract"]
    /\ UNCHANGED <<ctxDone, nFiles, filesDone, resultsCh, chClosed, ingestStatus>>

\* ExtractPDF / ExtractDOCX, then the result (pages or error) is sent on resultsCh
ExExtract(f) ==
    /\ extractTask[f].pc = "extract"
    /\ resultsCh' = resultsCh + 1
    /\ extractTask' = [extractTask EXCEPT ![f].pc = "bump", ![f].ran = TRUE]
    /\ UNCHANGED <<ctxDone, nFiles, filesDone, extractSem, chClosed, ingestStatus>>

\* newDone := atomic.AddInt32(&filesDone, 1)
ExBump(f) ==
    /\ extractTask[f].pc = "bump"
    /\ filesDone' = filesDone + 1
    /\ extractTask' = [extractTask EXCEPT ![f].pc = "write", ![f].newDone = filesDone + 1]
    /\ UNCHANGED <<ctxDone, nFiles, extractSem, resultsCh, chClosed, ingestStatus>>

\* under ingestStatus.mu: FilesDone = newDone
ExWrite(f) ==
    /\ extractTask[f].pc = "write"
    /\ ingestStatus' = [ingestStatus EXCEPT !.FilesDone = extractTask[f].newDone]
    /\ extractTask' = [extractTask EXCEPT ![f].pc = "release", ![f].newDone = 0]
    /\ UNCHANGED <<ctxDone, nFiles, filesDone, extractSem, resultsCh, chClosed>>

\* deferred: <-extractSem, then extractWg.Done()
ExRelease(f) ==
    /\ extractTask[f].pc = "release"
    /\ extractSem > 0
    /\ extractSem' = extractSem - 1
    /\ extractTask' = [extractTask EXCEPT ![f].pc = "done"]
    /\ UNCHANGED <<ctxDone, nFiles, filesDone, resultsCh, chClosed, ingestStatus>>

\* the closer goroutine: extractWg.Wait(); close(resultsCh)
ExClose ==
    /\ ~chClosed
    /\ \A f \in Files : extractTask[f].pc = "done"
    /\ chClosed' = TRUE
    /\ UNCHANGED <<ctxDone, nFiles, extractTask, filesDone, extractSem, resultsCh, ingestStatus>>

InitExtract ==
    /\ InitLRU
    /\ NoEmbedding
    /\ InitServer
    /\ \E n \in 1..MaxFiles : StartExtraction(n)

ExCancelStep ==
    CancelCtx /\ UNCHANGED <<lruVars, embVars, srvVars, ingestStatus, nFiles, extractTask, filesDone,
                             extractSem, resultsCh, chClosed>>

ExSelectCancelStep == \E f \in Files : ExSelectCancel(f) /\ UNCHANGED <<lruVars, embVars, srvVars>>

ExAcquireStep == \E f \in Files : ExAcquire(f) /\ UNCHANGED <<lruVars, embVars, srvVars>>

ExExtractStep == \E f \in Files : ExExtract(f) /\ UNCHANGED <<lruVars, embVars, srvVars>>

ExBumpStep == \E f \in Files : ExBump(f) /\ UNCHANGED <<lruVars, embVars, srvVars>>

ExWriteStep == \E f \in Files : ExWrite(f) /\ UNCHANGED <<lruVars, embVars, srvVars>>

ExReleaseStep == \E f \in Files : ExRelease(f) /\ UNCHANGED <<lruVars, embVars, srvVars>>

ExCloseStep == ExClose /\ UNCHANGED <<lruVars, embVars, srvVars>>

NextExtract ==
    \/ ExCancelStep
    \/ ExSelectCancelStep
    \/ ExAcquireStep
    \/ ExExtractStep
    \/ ExBumpStep
    \/ ExWriteStep
    \/ ExReleaseStep
    \/ ExCloseStep

SpecExtract == InitExtract /\ [][NextExtract]_vars

\* C4: during one run, every successive snapshot of IngestStatus.files_done is
\* greater than or equal to the previous one and never exceeds files_total.
C4_FilesDoneMonotonic ==
    [][/\ ingestStatus'.FilesDone >= ingestStatus.FilesDone
       /\ ingestStatus'.FilesDone <= ingestStatus'.FilesTotal]_vars

\* C8: at every moment at most 4 extraction tasks are between acquiring and
\* releasing the extraction semaphore, and a task that observed cancellation
\* before acquiring a slot runs no extraction.
C8_ExtractionBound ==
    /\ Cardinality(InFlight) <= extractConcurrency
    /\ Cardinality(InFlight) = extractSem
    /\ \A f \in Files : extractTask[f].sawCancel => ~extractTask[f].ran

\* the four slots are taken, and a fifth task has seen the cancellation at its
\* select and returned without extracting
C8_Witness ==
    /\ Cardinality(InFlight) = extractConcurrency
    /\ \E f \in Files : extractTask[f].sawCancel /\ extractTask[f].pc = "done"
    /\ \E f \in Files : extractTask[f].ran

(***************************************************************************)
(* Embedding stage of runIngestion: the consumer loop over resultsCh, the  *)
(* per-file embedding tasks, Index.EmbedAndIndex and the embedProgress     *)
(* callback.  A call of EmbedAndIndex is a record                          *)
(*   st        "loop" (spawning batch goroutines), "wait" (wg.Wait),       *)
(*             "ret" (returned, embedWg.Done called)                       *)
(*   total     len(chunks);  next: start of the next job to spawn          *)
(*   sem       tokens in the call's channel sem;  wg: the WaitGroup count  *)
(*   firstErr  "nil", "ctx" or "embed" (written through errOnce)           *)
(*   doneCount the call's doneCount                                        *)
(*   gs        the bag of its live batch goroutines [pc, size, attempt,    *)
(*             slot]; slot tells whether the goroutine was spawned after   *)
(*             the send on sem succeeded                                   *)
(***************************************************************************)
\* EmbedAndIndex: chunks per batch job
batchSize == 200

\* EmbedAndIndex: capacity of the channel sem
concurrency == 6

\* EmbedAndIndex: attempts of the retry loop
maxAttempts == 5

MaxEmbFiles == 2

MaxBatchJobs == 2

MaxEmbedFails == 1

\* result of an extraction that failed (res.err != nil || res.chunks == nil)
FailedExtraction == -1

Min(a, b) == IF a < b THEN a ELSE b

\* number of batch jobs EmbedAndIndex builds for n chunks
NumJobs(n) == (n + batchSize - 1) \div batchSize

\* len(ChunkPages(res.chunks)) of a file: no chunk, or b - 1 full batches and a chunk
ChunkCounts == {0} \cup {(b - 1) * batchSize + 1 : b \in 1..MaxBatchJobs}

RECURSIVE TotalJobs(_)
TotalJobs(q) ==
    IF q = <<>> THEN 0
    ELSE (IF Head(q) = FailedExtraction THEN 0 ELSE NumJobs(Head(q))) + TotalJobs(Tail(q))

RECURSIVE SeqsUpTo(_, _)
SeqsUpTo(S, n) ==
    IF n = 0 THEN {<<>>}
    ELSE LET shorter == SeqsUpTo(S, n - 1)
         IN  shorter \cup {Append(q, x) : q \in {r \in shorter : Len(r) = n - 1}, x \in S}

BagAdd(b, e) == b (+) SetToBag({e})

BagRemove(b, e) == b (-) SetToBag({e})

Calls == 1..Len(calls)

Goroutines(c) == BagToSet(calls[c].gs)

NewCall(n) ==
    [st |-> IF n = 0 THEN "ret" ELSE "loop", total |-> n, next |-> 0, sem |-> 0, wg |-> 0,
     firstErr |-> "nil", doneCount |-> 0, gs |-> EmptyBag, exhausted |-> FALSE]

NewBatch(c, hasSlot) ==
    [pc |-> "attempt", size |-> Min(batchSize, calls[c].total - calls[c].next),
     attempt |-> 0, slot |-> hasSlot, embedCalls |-> 0, embedded |-> FALSE]

\* errOnce.Do(func() { firstErr = e })
errOnce(cur, e) == IF cur = "nil" THEN e ELSE cur

\* the goroutine g of call c becomes h; the call's firstErr goes through errOnce when e is an error
MoveBatch(c, g, h, e) ==
    calls' = [calls EXCEPT ![c].gs = BagAdd(BagRemove(@, g), h),
                           ![c].firstErr = IF e = "nil" THEN @ ELSE errOnce(@, e)]

\* wg.Add(1); go func(j batchJob): the loop moves to the next job or to wg.Wait
SpawnBatch(c, hasSlot, e) ==
    calls' = [calls EXCEPT
                ![c].gs = BagAdd(@, NewBatch(c, hasSlot)),
                ![c].wg = @ + 1,
                ![c].sem = IF hasSlot THEN @ + 1 ELSE @,
                ![c].firstErr = IF e = "nil" THEN @ ELSE errOnce(@, e),
                ![c].next = @ + batchSize,
                ![c].st = IF calls[c].next + batchSize >= calls[c].total THEN "wait" ELSE "loop"]

\* the IngestStatus of a run whose extraction stage is over for n files
ProcessingStatus(n) ==
    [IdleStatus EXCEPT !.Phase = "processing", !.FilesTotal = n, !.FilesDone = n]

\* the consumer starts on the results q of the extraction stage; the provider may fail k
\* times, or, with perm, rejects every call; key is the openAIKey the run was started with
StartRun(q, k, perm, key) ==
    /\ extracted = q
    /\ consumer = [pc |-> "recv", cur |-> 0, anyFileOk |-> FALSE, fileResults |-> <<>>]
    /\ chunksTotal = 0
    /\ idxLen = 0
    /\ idxMuHeld = FALSE
    /\ calls = <<>>
    /\ runErr = "nil"
    /\ embedFails = k
    /\ permanentErr = perm
    /\ openAIKey = key
    /\ summaryTasks = <<>>
    /\ ingestStatus = ProcessingStatus(Len(q))
    /\ ctxDone = FALSE
    /\ nFiles = Len(q)
    /\ extractTask = [f \in 1..Len(q) |-> [NewTask EXCEPT !.pc = "done"]]
    /\ filesDone = Len(q)
    /\ extractSem = 0
    /\ resultsCh = Len(q)
    /\ chClosed = TRUE

\* a run without summaries whose provider accepts requests, but may fail k times
StartEmbedding(q, k) == StartRun(q, k, FALSE, "")

\* what only the provider's state and the summary tasks touch
embedIdle == <<permanentErr, openAIKey, summaryTasks>>

\* for res := range resultsCh, with ctx.Err() != nil: break
ConsBreak ==
    /\ consumer.pc = "recv"
    /\ extracted # <<>>
    /\ ctxDone
    /\ consumer' = [consumer EXCEPT !.pc = "barrier"]
    /\ extracted' = Tail(extracted)
    /\ UNCHANGED <<chunksTotal, idxLen, idxMuHeld, calls, runErr, embedFails, embedIdle, ingestStatus, ctxDone>>

\* a failed result, had it ended the loop instead of continuing it
ConsFailedFileStops ==
    /\ consumer.pc = "recv"
    /\ extracted # <<>>
    /\ ~ctxDone
    /\ Head(extracted) = FailedExtraction
    /\ extracted' = Tail(extracted)
    /\ consumer' = [consumer EXCEPT !.pc = "barrier", !.fileResults = Append(@, "failed")]
    /\ UNCHANGED <<chunksTotal, idxLen, idxMuHeld, calls, runErr, embedFails, embedIdle,
                   ingestStatus, ctxDone>>

\* a failed result: a FileResult "failed" is recorded; continue
ConsFailedFile ==
    /\ consumer.pc = "recv"
    /\ extracted # <<>>
    /\ ~ctxDone
    /\ Head(extracted) = FailedExtraction
    /\ extracted' = Tail(extracted)
    /\ consumer' = [consumer EXCEPT !.fileResults = Append(@, "failed")]
    /\ UNCHANGED <<chunksTotal, idxLen, idxMuHeld, calls, runErr, embedFails, embedIdle,
                   ingestStatus, ctxDone>>

\* if openAIKey != "": summaryWg.Add(1) and the summary goroutine of the file is started
SpawnSummary ==
    IF openAIKey # ""
    THEN Append(summaryTasks, [file |-> Len(consumer.fileResults) + 1, st |-> "running"])
    ELSE summaryTasks

\* anyFileOk = true; the summary task; ChunkPages; atomic.AddInt64(&chunksTotal, numChunks)
ConsChunk ==
    /\ consumer.pc = "recv"
    /\ extracted # <<>>
    /\ ~ctxDone
    /\ Head(extracted) # FailedExtraction
    /\ extracted' = Tail(extracted)
    /\ chunksTotal' = chunksTotal + Head(extracted)
    /\ consumer' = [consumer EXCEPT !.pc = "publish", !.cur = Head(extracted),
                                    !.anyFileOk = TRUE]
    /\ summaryTasks' = SpawnSummary
    /\ UNCHANGED <<idxLen, idxMuHeld, calls, runErr, embedFails, permanentErr, openAIKey,
                   ingestStatus, ctxDone>>

\* under ingestStatus.mu: ChunksTotal = Load(&chunksTotal); then embedWg.Add(1) and
\* the embedding task of the file is started
ConsPublish ==
    /\ consumer.pc = "publish"
    /\ ingestStatus' = [ingestStatus EXCEPT !.ChunksTotal = chunksTotal]
    /\ calls' = Append(calls, NewCall(consumer.cur))
    /\ consumer' = [consumer EXCEPT !.pc = "recv", !.cur = 0,
                                    !.fileResults = Append(@, "ok")]
    /\ UNCHANGED <<extracted, chunksTotal, idxLen, idxMuHeld, runErr, embedFails, embedIdle, ctxDone>>

\* resultsCh is closed and drained: the range loop ends
ConsDrained ==
    /\ consumer.pc = "recv"
    /\ extracted = <<>>
    /\ consumer' = [consumer EXCEPT !.pc = "barrier"]
    /\ UNCHANGED <<extracted, chunksTotal, idxLen, idxMuHeld, calls, runErr, embedFails, embedIdle,
                   ingestStatus, ctxDone>>

\* select, case sem <- struct{}{}: blocks while the channel is full
EmbLoopAcquire(c) ==
    /\ calls[c].st = "loop"
    /\ calls[c].sem < concurrency
    /\ SpawnBatch(c, TRUE, "nil")
    /\ UNCHANGED <<extracted, consumer, chunksTotal, idxLen, idxMuHeld, runErr, embedFails, embedIdle,
                   ingestStatus, ctxDone>>

\* select, case <-ctx.Done(): errOnce; break leaves the select only, so the
\* goroutine of the job is started all the same, without a token in sem
EmbLoopCancel(c) ==
    /\ calls[c].st = "loop"
    /\ ctxDone
    /\ SpawnBatch(c, FALSE, "ctx")
    /\ UNCHANGED <<extracted, consumer, chunksTotal, idxLen, idxMuHeld, runErr, embedFails, embedIdle,
                   ingestStatus, ctxDone>>

\* if ctx.Err() != nil { errOnce; return }  (at the start and before each attempt)
EmbAttemptCancelled(c, g) ==
    /\ g.pc = "attempt"
    /\ ctxDone
    /\ MoveBatch(c, g, [g EXCEPT !.pc = "release"], "ctx")
    /\ UNCHANGED <<extracted, consumer, chunksTotal, idxLen, idxMuHeld, runErr, embedFails, embedIdle,
                   ingestStatus, ctxDone>>

\* idx.Embedder.Embed(ctx, inputs) is called
EmbAttemptCall(c, g) ==
    /\ g.pc = "attempt"
    /\ ~ctxDone
    /\ MoveBatch(c, g, [g EXCEPT !.pc = "embed", !.embedCalls = @ + 1], "nil")
    /\ UNCHANGED <<extracted, consumer, chunksTotal, idxLen, idxMuHeld, runErr, embedFails, embedIdle,
                   ingestStatus, ctxDone>>

\* Embed returned a vector per input
EmbedOk(c, g) ==
    /\ g.pc = "embed"
    /\ ~permanentErr
    /\ MoveBatch(c, g, [g EXCEPT !.pc = "write", !.embedded = TRUE], "nil")
    /\ UNCHANGED <<extracted, consumer, chunksTotal, idxLen, idxMuHeld, runErr, embedFails, embedIdle,
                   ingestStatus, ctxDone>>

\* the batch of goroutine g has used up its attempts: errOnce(embedding error); return
GiveUp(c, g) ==
    calls' = [calls EXCEPT ![c].gs = BagAdd(BagRemove(@, g), [g EXCEPT !.pc = "release"]),
                           ![c].firstErr = errOnce(@, "embed"),
                           ![c].exhausted = TRUE]

\* the retry loop, had it run for attempt <= 5
EmbedFailOneMore(c, g) ==
    /\ g.pc = "embed"
    /\ ctxDone \/ permanentErr \/ embedFails > 0
    /\ embedFails' = IF ctxDone \/ permanentErr THEN embedFails ELSE embedFails - 1
    /\ IF g.attempt < maxAttempts
       THEN MoveBatch(c, g, [g EXCEPT !.pc = "backoff"], "nil")
       ELSE GiveUp(c, g)
    /\ UNCHANGED <<extracted, consumer, chunksTotal, idxLen, idxMuHeld, runErr, embedIdle,
                   ingestStatus, ctxDone>>

\* Embed returned an error (the provider failed, or the context was cancelled):
\* back off when attempt < 4, else errOnce(embedding error) and return
EmbedFail(c, g) ==
    /\ g.pc = "embed"
    /\ ctxDone \/ permanentErr \/ embedFails > 0
    /\ embedFails' = IF ctxDone \/ permanentErr THEN embedFails ELSE embedFails - 1
    /\ IF g.attempt < maxAttempts - 1
       THEN MoveBatch(c, g, [g EXCEPT !.pc = "backoff"], "nil")
       ELSE GiveUp(c, g)
    /\ UNCHANGED <<extracted, consumer, chunksTotal, idxLen, idxMuHeld, runErr, embedIdle,
                   ingestStatus, ctxDone>>

\* select, case <-timer.C: next attempt
EmbBackoffTimer(c, g) ==
    /\ g.pc = "backoff"
    /\ MoveBatch(c, g, [g EXCEPT !.pc = "attempt", !.attempt = @ + 1], "nil")
    /\ UNCHANGED <<extracted, consumer, chunksTotal, idxLen, idxMuHeld, runErr, embedFails, embedIdle,
                   ingestStatus, ctxDone>>

\* select, case <-ctx.Done(): errOnce; return
EmbBackoffCancel(c, g) ==
    /\ g.pc = "backoff"
    /\ ctxDone
    /\ MoveBatch(c, g, [g EXCEPT !.pc = "release"], "ctx")
    /\ UNCHANGED <<extracted, consumer, chunksTotal, idxLen, idxMuHeld, runErr, embedFails, embedIdle,
                   ingestStatus, ctxDone>>

\* idx.mu.Lock(); the first chunk of the batch is appended to idx.Chunks
EmbWriteBegin(c, g) ==
    /\ g.pc = "write"
    /\ ~idxMuHeld
    /\ idxLen' = idxLen + 1
    /\ idxMuHeld' = (g.size > 1)
    /\ MoveBatch(c, g, [g EXCEPT !.pc = IF g.size > 1 THEN "writing" ELSE "progress"], "nil")
    /\ UNCHANGED <<extracted, consumer, chunksTotal, runErr, embedFails, embedIdle, ingestStatus, ctxDone>>

\* the rest of the batch is appended; idx.mu.Unlock()
EmbWriteEnd(c, g) ==
    /\ g.pc = "writing"
    /\ idxLen' = idxLen + (g.size - 1)
    /\ idxMuHeld' = FALSE
    /\ MoveBatch(c, g, [g EXCEPT !.pc = "progress"], "nil")
    /\ UNCHANGED <<extracted, consumer, chunksTotal, runErr, embedFails, embedIdle, ingestStatus, ctxDone>>

\* a progress callback that publishes the call's own cumulative count
embedProgressOwnCount(st, total, done) ==
    [st EXCEPT !.ChunksTotal = total, !.ChunksDone = done]

\* embedProgress := func(total, done int): under ingestStatus.mu,
\* ChunksTotal = Load(&chunksTotal), ChunksDone = len(idx.Chunks)
embedProgress(st, total, done) ==
    [st EXCEPT !.ChunksTotal = chunksTotal, !.ChunksDone = idxLen]

\* doneMu.Lock(); doneCount += len(batch); progress(totalChunks, progressOffset+doneCount)
EmbProgress(c, g) ==
    /\ g.pc = "progress"
    /\ ingestStatus' = embedProgress(ingestStatus, calls[c].total, calls[c].doneCount + g.size)
    /\ calls' = [calls EXCEPT ![c].gs = BagAdd(BagRemove(@, g), [g EXCEPT !.pc = "release"]),
                              ![c].doneCount = @ + g.size]
    /\ UNCHANGED <<extracted, consumer, chunksTotal, idxLen, idxMuHeld, runErr, embedFails, embedIdle, ctxDone>>

\* deferred: <-sem (blocks while the channel is empty), then wg.Done()
EmbRelease(c, g) ==
    /\ g.pc = "release"
    /\ calls[c].sem > 0
    /\ calls' = [calls EXCEPT ![c].gs = BagRemove(@, g), ![c].sem = @ - 1, ![c].wg = @ - 1]
    /\ UNCHANGED <<extracted, consumer, chunksTotal, idxLen, idxMuHeld, runErr, embedFails, embedIdle,
                   ingestStatus, ctxDone>>

\* wg.Wait() is over: EmbedAndIndex returns firstErr; the embedding task records it in
\* the run's firstErr when ctx.Err() == nil, and calls embedWg.Done()
EmbReturn(c) ==
    /\ calls[c].st = "wait"
    /\ calls[c].wg = 0
    /\ calls' = [calls EXCEPT ![c].st = "ret"]
    /\ runErr' = IF calls[c].firstErr # "nil" /\ ~ctxDone THEN errOnce(runErr, calls[c].firstErr)
                 ELSE runErr
    /\ UNCHANGED <<extracted, consumer, chunksTotal, idxLen, idxMuHeld, embedFails, embedIdle,
                   ingestStatus, ctxDone>>

\* the phase runIngestion ends in after embedWg.Wait()
TerminalPhase ==
    IF ctxDone THEN "cancelled"
    ELSE IF ~consumer.anyFileOk THEN "error"
    ELSE IF runErr # "nil" THEN "error"
    ELSE "done"

SummaryTasks == 1..Len(summaryTasks)

\* GenerateDocSummary returned a summary: idx.AddDocSummary under idx.mu; summaryWg.Done()
SummaryOk(i) ==
    /\ summaryTasks[i].st = "running"
    /\ ~idxMuHeld
    /\ summaryTasks' = [summaryTasks EXCEPT ![i].st = "added"]
    /\ UNCHANGED <<extracted, consumer, chunksTotal, idxLen, idxMuHeld, calls, runErr,
                   embedFails, permanentErr, openAIKey, ingestStatus, ctxDone>>

\* the summary task, had it reported its error as the run's
SummaryFailRecorded(i) ==
    /\ summaryTasks[i].st = "running"
    /\ summaryTasks' = [summaryTasks EXCEPT ![i].st = "failed"]
    /\ runErr' = errOnce(runErr, "summary")
    /\ UNCHANGED <<extracted, consumer, chunksTotal, idxLen, idxMuHeld, calls,
                   embedFails, permanentErr, openAIKey, ingestStatus, ctxDone>>

\* GenerateDocSummary returned an error: it is logged; summaryWg.Done()
SummaryFail(i) ==
    /\ summaryTasks[i].st = "running"
    /\ summaryTasks' = [summaryTasks EXCEPT ![i].st = "failed"]
    /\ UNCHANGED <<extracted, consumer, chunksTotal, idxLen, idxMuHeld, calls, runErr,
                   embedFails, permanentErr, openAIKey, ingestStatus, ctxDone>>

\* the files whose DocumentSummary is in idx.DocSummaries
DocSummaries == {summaryTasks[i].file : i \in {j \in SummaryTasks : summaryTasks[j].st = "added"}}

\* the end of the run, had it waited for the embedding tasks alone
RunTerminalAfterEmbedWait ==
    /\ consumer.pc = "barrier"
    /\ \A c \in Calls : calls[c].st = "ret"
    /\ consumer' = [consumer EXCEPT !.pc = "finished"]
    /\ ingestStatus' = IF TerminalPhase = "done"
                       THEN [ingestStatus EXCEPT !.Phase = "done", !.ChunksDone = idxLen,
                                                 !.ChunksTotal = idxLen]
                       ELSE [ingestStatus EXCEPT !.Phase = TerminalPhase]
    /\ UNCHANGED <<extracted, chunksTotal, idxLen, idxMuHeld, calls, runErr, embedFails, embedIdle, ctxDone>>

\* embedWg.Wait() and summaryWg.Wait() are over; the terminal phase is written (with
\* the counters when done)
RunTerminal ==
    /\ consumer.pc = "barrier"
    /\ \A c \in Calls : calls[c].st = "ret"
    /\ \A i \in SummaryTasks : summaryTasks[i].st # "running"
    /\ consumer' = [consumer EXCEPT !.pc = "finished"]
    /\ ingestStatus' = IF TerminalPhase = "done"
                       THEN [ingestStatus EXCEPT !.Phase = "done", !.ChunksDone = idxLen,
                                                 !.ChunksTotal = idxLen]
                       ELSE [ingestStatus EXCEPT !.Phase = TerminalPhase]
    /\ UNCHANGED <<extracted, chunksTotal, idxLen, idxMuHeld, calls, runErr, embedFails, embedIdle, ctxDone>>

extractIdle == <<nFiles, extractTask, filesDone, extractSem, resultsCh, chClosed>>

EmCancelStep ==
    CancelCtx /\ UNCHANGED <<lruVars, extractIdle, embVars, srvVars, ingestStatus>>

ConsBreakStep == ConsBreak /\ UNCHANGED <<lruVars, extractIdle, srvVars>>

ConsFailedFileStep == ConsFailedFile /\ UNCHANGED <<lruVars, extractIdle, srvVars>>

ConsChunkStep == ConsChunk /\ UNCHANGED <<lruVars, extractIdle, srvVars>>

ConsPublishStep == ConsPublish /\ UNCHANGED <<lruVars, extractIdle, srvVars>>

ConsDrainedStep == ConsDrained /\ UNCHANGED <<lruVars, extractIdle, srvVars>>

EmbLoopAcquireStep == \E c \in Calls : EmbLoopAcquire(c) /\ UNCHANGED <<lruVars, extractIdle, srvVars>>

EmbLoopCancelStep == \E c \in Calls : EmbLoopCancel(c) /\ UNCHANGED <<lruVars, extractIdle, srvVars>>

EmbAttemptCancelledStep ==
    \E c \in Calls : \E g \in Goroutines(c) :
        EmbAttemptCancelled(c, g) /\ UNCHANGED <<lruVars, extractIdle, srvVars>>

EmbAttemptCallStep ==
    \E c \in Calls : \E g \in Goroutines(c) :
        EmbAttemptCall(c, g) /\ UNCHANGED <<lruVars, extractIdle, srvVars>>

EmbedOkStep ==
    \E c \in Calls : \E g \in Goroutines(c) : EmbedOk(c, g) /\ UNCHANGED <<lruVars, extractIdle, srvVars>>

EmbedFailStep ==
    \E c \in Calls : \E g \in Goroutines(c) : EmbedFail(c, g) /\ UNCHANGED <<lruVars, extractIdle, srvVars>>

EmbBackoffTimerStep ==
    \E c \in Calls : \E g \in Goroutines(c) :
        EmbBackoffTimer(c, g) /\ UNCHANGED <<lruVars, extractIdle, srvVars>>

EmbBackoffCancelStep ==
    \E c \in Calls : \E g \in Goroutines(c) :
        EmbBackoffCancel(c, g) /\ UNCHANGED <<lruVars, extractIdle, srvVars>>

EmbWriteBeginStep ==
    \E c \in Calls : \E g \in Goroutines(c) :
        EmbWriteBegin(c, g) /\ UNCHANGED <<lruVars, extractIdle, srvVars>>

EmbWriteEndStep ==
    \E c \in Calls : \E g \in Goroutines(c) :
        EmbWriteEnd(c, g) /\ UNCHANGED <<lruVars, extractIdle, srvVars>>

EmbProgressStep ==
    \E c \in Calls : \E g \in Goroutines(c) :
        EmbProgress(c, g) /\ UNCHANGED <<lruVars, extractIdle, srvVars>>

EmbReleaseStep ==
    \E c \in Calls : \E g \in Goroutines(c) :
        EmbRelease(c, g) /\ UNCHANGED <<lruVars, extractIdle, srvVars>>

EmbReturnStep == \E c \in Calls : EmbReturn(c) /\ UNCHANGED <<lruVars, extractIdle, srvVars>>

RunTerminalStep == RunTerminal /\ UNCHANGED <<lruVars, extractIdle, srvVars>>

NextEmbed ==
    \/ EmCancelStep
    \/ ConsBreakStep
    \/ ConsFailedFileStep
    \/ ConsChunkStep
    \/ ConsPublishStep
    \/ ConsDrainedStep
    \/ EmbLoopAcquireStep
    \/ EmbLoopCancelStep
    \/ EmbAttemptCancelledStep
    \/ EmbAttemptCallStep
    \/ EmbedOkStep
    \/ EmbedFailStep
    \/ EmbBackoffTimerStep
    \/ EmbBackoffCancelStep
    \/ EmbWriteBeginStep
    \/ EmbWriteEndStep
    \/ EmbProgressStep
    \/ EmbReleaseStep
    \/ EmbReturnStep
    \/ RunTerminalStep

\* runs over at most MaxEmbFiles files and MaxBatchJobs batches in all
InitProgress ==
    /\ InitLRU
    /\ InitServer
    /\ \E q \in SeqsUpTo(ChunkCounts \cup {FailedExtraction}, MaxEmbFiles) :
       \E k \in 0..MaxEmbedFails :
           Len(q) >= 1 /\ TotalJobs(q) <= MaxBatchJobs /\ StartEmbedding(q, k)

\* the same, and a one-batch run whose provider fails maxAttempts times
InitProgressOrOutage ==
    \/ InitProgress
    \/ InitLRU /\ InitServer /\ StartEmbedding(<<1>>, maxAttempts)
    \/ InitLRU /\ InitServer /\ StartRun(<<1>>, 0, TRUE, "")

SpecProgress == InitProgressOrOutage /\ [][NextEmbed]_vars

MaxSumFiles == 1

SummaryOkStep ==
    \E i \in SummaryTasks : SummaryOk(i) /\ UNCHANGED <<lruVars, extractIdle, srvVars>>

SummaryFailStep ==
    \E i \in SummaryTasks : SummaryFail(i) /\ UNCHANGED <<lruVars, extractIdle, srvVars>>

\* runs started with an OpenAI key: up to MaxSumFiles files of two chunks, or not
\* extracted, whose provider works, fails once, or fails until a batch gives up;
\* and a run of two files of two chunks whose provider works
InitSummary ==
    /\ InitLRU
    /\ InitServer
    /\ \/ \E q \in SeqsUpTo({2, FailedExtraction}, MaxSumFiles) :
          \E k \in {0, 1, maxAttempts} : Len(q) >= 1 /\ StartRun(q, k, FALSE, "key")
       \/ StartRun(<<2, 2>>, 0, FALSE, "key")

NextSummary ==
    \/ NextEmbed
    \/ SummaryOkStep
    \/ SummaryFailStep

SpecSummary == InitSummary /\ [][NextSummary]_vars


\* runs that fill the embedding stage: one file of concurrency + 1 batches, and
\* two files of 4 and 3 batches
InitEmbed ==
    /\ InitLRU
    /\ InitServer
    /\ \E q \in {<<concurrency * batchSize + 1>>,
                 <<3 * batchSize + 1, 2 * batchSize + 1>>} : StartEmbedding(q, 0)

\* the steps of a run that is not cancelled and whose provider does not fail
NextEmbedUndisturbed ==
    \/ ConsChunkStep
    \/ ConsPublishStep
    \/ ConsDrainedStep
    \/ EmbLoopAcquireStep
    \/ EmbAttemptCallStep
    \/ EmbedOkStep
    \/ EmbWriteBeginStep
    \/ EmbWriteEndStep
    \/ EmbProgressStep
    \/ EmbReleaseStep
    \/ EmbReturnStep
    \/ RunTerminalStep

SpecEmbed == InitEmbed /\ [][NextEmbedUndisturbed]_vars

\* C5: during one run, under any interleaving of the consumer loop and the
\* progress callbacks of concurrently running embedding tasks, every successive
\* snapshot of chunks_total and of chunks_done up to the terminal phase is
\* greater than or equal to the previous one.
C5_ChunkCountersMonotonic ==
    [][/\ ingestStatus'.ChunksTotal >= ingestStatus.ChunksTotal
       /\ ingestStatus'.ChunksDone >= ingestStatus.ChunksDone]_vars

\* a progress callback has published len(idx.Chunks) while another batch was in
\* the middle of its append, and the consumer has added a file's chunks to the
\* atomic counter without having published the total yet
C5_Witness ==
    /\ ingestStatus.Phase = "processing"
    /\ ingestStatus.ChunksDone >= 1
    /\ \/ idxMuHeld /\ ingestStatus.ChunksDone = idxLen
       \/ consumer.pc = "publish" /\ ingestStatus.ChunksTotal < chunksTotal

\* the run is over and its context was never cancelled
FinishedUncancelled == consumer.pc = "finished" /\ ~ctxDone

\* no EmbedAndIndex call of the run recorded an error
NoEmbeddingError == \A c \in Calls : calls[c].firstErr = "nil"

FilesRecorded(status) ==
    {i \in 1..Len(consumer.fileResults) : consumer.fileResults[i] = status}

\* C15: a file whose extraction fails is recorded in file_results as failed
\* and does not stop the other files: with no cancellation and no embedding
\* error, a run with at least one successfully extracted file ends in phase
\* done, and a run ends in phase error only when every file failed.
C15_FailedFileIsolated ==
    /\ Len(consumer.fileResults) + Len(extracted) <= nFiles
    /\ (consumer.pc = "recv" /\ ~ctxDone) =>
           Len(consumer.fileResults) + Len(extracted) = nFiles
    /\ (FinishedUncancelled /\ NoEmbeddingError) =>
           /\ Len(consumer.fileResults) = nFiles
           /\ FilesRecorded("ok") # {} => ingestStatus.Phase = "done"
           /\ ingestStatus.Phase = "error" => FilesRecorded("failed") = 1..nFiles

\* a run of two files, the first failed and the second extracted, has ended done
C15_Witness ==
    /\ FinishedUncancelled
    /\ NoEmbeddingError
    /\ nFiles = 2
    /\ consumer.fileResults = <<"failed", "ok">>
    /\ ingestStatus.Phase = "done"

\* the retry loop as seen on the batches in flight: at most maxAttempts calls
\* of the Embedder each, and none after a call that succeeded
BatchesRetryAsSaid ==
    \A c \in Calls : \A g \in Goroutines(c) :
        /\ g.embedCalls <= maxAttempts
        /\ g.embedded => g.pc \notin {"attempt", "embed", "backoff"}

\* errOnce at both levels: an error once recorded is never replaced, and the
\* run records only what a call returned
FirstErrorKept ==
    /\ \A c \in Calls : calls[c].firstErr # "nil" => calls'[c].firstErr = calls[c].firstErr
    /\ runErr # "nil" => runErr' = runErr
    /\ runErr' # "nil" => \E c \in Calls : calls[c].firstErr = runErr'

\* some batch of the run has failed maxAttempts times
SomeBatchExhausted == \E c \in Calls : calls[c].exhausted

C17_PermanentErrorNotRetried ==
    permanentErr =>
        /\ \A c \in Calls : \A g \in Goroutines(c) : g.embedCalls <= 1
        /\ FinishedUncancelled => ingestStatus.Phase = "error"

\* the phase a run ends in by its cancellation, its extraction results and its
\* EmbedAndIndex calls alone
PhaseWithoutSummaries ==
    IF ctxDone THEN "cancelled"
    ELSE IF FilesRecorded("ok") = {} THEN "error"
    ELSE IF ~NoEmbeddingError THEN "error"
    ELSE "done"

\* runIngestion passes its barrier and writes the terminal phase
RunEnds == consumer.pc # "finished" /\ consumer'.pc = "finished"

\* a summary task ends on an error of GenerateDocSummary
SummaryFails ==
    \E i \in SummaryTasks : summaryTasks[i].st = "running" /\ summaryTasks'[i].st = "failed"

FailedSummaries == {summaryTasks[i].file : i \in {j \in SummaryTasks : summaryTasks[j].st = "failed"}}

\* C18: a summary task that fails changes nothing but its own state: the run
\* ends in the phase that cancellation, extraction and embedding give it,
\* whatever the summary tasks did; without cancellation and embedding error every
\* chunk of every extracted file, the ones whose summary failed included, is
\* embedded and in the Index of a run that ends done; and the store holds a
\* DocumentSummary for exactly the extracted files whose task did not fail.
C18_SummaryFailureHarmless ==
    [][ /\ SummaryFails =>
               UNCHANGED <<consumer, extracted, chunksTotal, idxLen, idxMuHeld, calls, runErr,
                           ingestStatus, ctxDone>>
        /\ RunEnds =>
               /\ ingestStatus'.Phase = PhaseWithoutSummaries
               /\ FailedSummaries \cup DocSummaries = FilesRecorded("ok")
               /\ FailedSummaries \cap DocSummaries = {}
               /\ Len(summaryTasks) = Cardinality(FilesRecorded("ok"))
               /\ (~ctxDone /\ NoEmbeddingError) =>
                      /\ idxLen = chunksTotal
                      /\ \A c \in Calls : calls[c].doneCount = calls[c].total
                      /\ FailedSummaries # {} => ingestStatus'.Phase = "done"
      ]_vars

\* a run of two extracted files has ended done with every chunk in the Index; the
\* summary of the first file failed and the summary of the second is in the store
C18_Witness ==
    /\ FinishedUncancelled
    /\ ingestStatus.Phase = "done"
    /\ consumer.fileResults = <<"ok", "ok">>
    /\ FailedSummaries = {1}
    /\ DocSummaries = {2}
    /\ idxLen = 4
    /\ ingestStatus.ChunksDone = 4

\* a terminal phase is written in this step
WritesTerminalPhase ==
    /\ ingestStatus.Phase \notin {"cancelled", "error", "done"}
    /\ ingestStatus'.Phase \in {"cancelled", "error", "done"}

\* C34: no terminal phase is written and the store is not saved before every
\* forked embedding task and every forked summary task has finished, so the saved
\* store and the cached Index hold every summary that was produced: once the run
\* has passed its barrier no task is running, and neither the summaries nor the
\* chunks of the Index change any more.
C34_BarrierBeforeTerminalPhase ==
    [][ /\ (WritesTerminalPhase \/ RunEnds) =>
               /\ \A c \in Calls : calls[c].st = "ret" /\ calls[c].gs = EmptyBag
               /\ \A i \in SummaryTasks : summaryTasks[i].st # "running"
               /\ Len(summaryTasks) = Cardinality(FilesRecorded("ok"))
        /\ consumer.pc = "finished" =>
               /\ summaryTasks' = summaryTasks
               /\ idxLen' = idxLen
               /\ ingestStatus' = ingestStatus
      ]_vars

\* a run of two files has ended done with the summaries of both files in the store
C34_Witness ==
    /\ consumer.pc = "finished"
    /\ ingestStatus.Phase = "done"
    /\ consumer.fileResults = <<"ok", "ok">>
    /\ DocSummaries = {1, 2}
    /\ idxLen = 4

\* the goroutines of call c can never finish: each waits to receive from the
\* empty channel sem, and the loop that sends on it is over
CallStuck(c) ==
    /\ calls[c].st = "wait"
    /\ calls[c].wg > 0
    /\ calls[c].sem = 0
    /\ \A g \in Goroutines(c) : g.pc = "release"

\* C3: every call to EmbedAndIndex eventually returns, whenever the scope is
\* cancelled: every batch task finishes and the final wait completes, so no
\* call is ever left with batch tasks that cannot finish.
C3_EmbedAndIndexReturns == \A c \in Calls : ~CallStuck(c)

RECURSIVE TokensHeld(_)
TokensHeld(n) == IF n = 0 THEN 0 ELSE calls[n].sem + TokensHeld(n - 1)

\* batches between slot acquisition and release, over all calls of the run
InFlightBatches == TokensHeld(Len(calls))

\* C7: at every moment of a run the number of embedding batches in flight,
\* across all per-file embedding tasks together, is at most 6.
C7_EmbeddingBound == InFlightBatches <= concurrency

(***************************************************************************)
(* The server: the handlers that start, cancel and disturb an ingestion    *)
(* run, and runIngestion itself with its pipeline reduced to one file.     *)
(* A handler is a request record that moves from one critical section to   *)
(* the next; a run is a record                                             *)
(*   project, pc   the project it ingests and its position                 *)
(*   cancelled     its context has been cancelled                          *)
(*   cancelledIn   history: IngestStatus.Phase when a cancel request for   *)
(*                 its project cancelled it                                *)
(*   failed        no file was extracted, or an embedding task failed      *)
(*   wroteDone     history: it has written phase done                      *)
(* An Index is named by the run that built it, and by the negated run when *)
(* it was loaded from that run's vectors file.  A request is a record      *)
(* kind, project, pc, idx: idx is the Index the handler holds in a local.  *)
(***************************************************************************)
Runs == 1..Len(runs)

\* len(files) of a run, and the number of chunks the files of project p yield
RunFiles == 1

ProjectChunks(p) == p

NewRun(p) ==
    [project |-> p, pc |-> "setup", cancelled |-> FALSE, cancelledIn |-> "none",
     failed |-> FALSE, wroteDone |-> FALSE]

ActiveRuns == {r \in Runs : runs[r].pc # "end"}

\* cancel() of run r's context
Cancelled(rs, r) == [rs EXCEPT ![r].cancelled = TRUE]

\* the same, called by handleCancelIngest for project p: when p is the run's
\* project the phase of the moment is remembered
CancelledByRequest(rs, r, p) ==
    [rs EXCEPT ![r].cancelled = TRUE,
               ![r].cancelledIn = IF @ = "none" /\ rs[r].project = p
                                  THEN ingestStatus.Phase ELSE @]

\* a request is received / moves on / is answered
Receive(q) == issued' = issued + 1 /\ reqs' = BagAdd(reqs, q)

Answered == issued' = issued + 1 /\ reqs' = reqs

Continue(q, pc) == reqs' = BagAdd(BagRemove(reqs, q), [q EXCEPT !.pc = pc]) /\ issued' = issued

Finish(q) == reqs' = BagRemove(reqs, q) /\ issued' = issued

Pending(kind, pc) == {q \in BagToSet(reqs) : q.kind = kind /\ q.pc = pc}

pipelineIdle == <<exVars, embVars, offVars>>

\* the server takes another request
MayReceive == issued < MaxRequests

\* handleIngest: the phase snapshot says processing: 409
IngestRejected(p) ==
    /\ ingestStatus.Phase = "processing"
    /\ Answered
    /\ UNCHANGED <<lruVars, pipelineIdle, closed, queryRet, indexLoading,
                   ingestStatus, activeProjectID, activeIndex,
                   ingestCancel, projects, vectors, runs>>

\* handleIngest: no .pdf / .docx in the uploads directory: 400
IngestNoFiles(p) ==
    /\ ingestStatus.Phase # "processing"
    /\ ~projects[p].hasFiles
    /\ Answered
    /\ UNCHANGED <<lruVars, pipelineIdle, closed, queryRet, indexLoading,
                   ingestStatus, activeProjectID, activeIndex,
                   ingestCancel, projects, vectors, runs>>

\* handleIngest: the check passed and the files are gathered
IngestAccepted(p) ==
    /\ ingestStatus.Phase # "processing"
    /\ projects[p].hasFiles
    /\ Receive([kind |-> "ingest", project |-> p, pc |-> "mark", idx |-> NoIndex])
    /\ UNCHANGED <<lruVars, pipelineIdle, closed, queryRet, indexLoading,
                   ingestStatus, activeProjectID, activeIndex,
                   ingestCancel, projects, vectors, runs>>

\* handleIngest: project status processing; IngestStatus reset for the run
IngestMark(q) ==
    /\ projects' = IF projects[q.project].exists
                   THEN [projects EXCEPT ![q.project].Status = "processing"]
                   ELSE projects
    /\ ingestStatus' = [IdleStatus EXCEPT !.Phase = "processing", !.FilesTotal = RunFiles]
    /\ Continue(q, "spawn")
    /\ UNCHANGED <<lruVars, pipelineIdle, closed, queryRet, indexLoading,
                   activeProjectID, activeIndex, ingestCancel,
                   vectors, runs>>

\* handleIngest: ingestCancel = cancel; activeProjectID = projectID; go runIngestion
IngestSpawn(q) ==
    /\ ingestCancel' = Len(runs) + 1
    /\ activeProjectID' = q.project
    /\ runs' = Append(runs, NewRun(q.project))
    /\ Finish(q)
    /\ UNCHANGED <<lruVars, pipelineIdle, closed, queryRet, indexLoading,
                   ingestStatus, activeIndex, projects, vectors>>

\* handleCancelIngest: cancel := s.ingestCancel; if cancel != nil { cancel() }
CancelRead(p) ==
    /\ runs' = IF ingestCancel # NoRun THEN CancelledByRequest(runs, ingestCancel, p) ELSE runs
    /\ Receive([kind |-> "cancel", project |-> p, pc |-> "status", idx |-> NoIndex])
    /\ UNCHANGED <<lruVars, pipelineIdle, closed, queryRet, indexLoading,
                   ingestStatus, activeProjectID, activeIndex,
                   ingestCancel, projects, vectors>>

\* handleCancelIngest: a project in processing or upload goes to upload
CancelStatus(q) ==
    /\ projects' = IF /\ projects[q.project].exists
                      /\ projects[q.project].Status \in {"processing", "upload"}
                   THEN [projects EXCEPT ![q.project].Status = "upload"]
                   ELSE projects
    /\ Continue(q, "phase")
    /\ UNCHANGED <<lruVars, pipelineIdle, closed, queryRet, indexLoading,
                   ingestStatus, activeProjectID, activeIndex,
                   ingestCancel, vectors, runs>>

\* handleCancelIngest: Phase = "idle"
CancelPhase(q) ==
    /\ ingestStatus' = [ingestStatus EXCEPT !.Phase = "idle"]
    /\ Finish(q)
    /\ UNCHANGED <<lruVars, pipelineIdle, closed, queryRet, indexLoading,
                   activeProjectID, activeIndex, ingestCancel,
                   projects, vectors, runs>>

\* handleActivateProject: projects.Get fails: 404
ActivateNotFound(p) ==
    /\ ~projects[p].exists
    /\ Answered
    /\ UNCHANGED <<lruVars, pipelineIdle, closed, queryRet, indexLoading,
                   ingestStatus, activeProjectID, activeIndex,
                   ingestCancel, projects, vectors, runs>>

\* handleActivateProject: the active slot is emptied and given to p, IngestStatus
\* is reset; the handler goes on to the cache only when the project is ready
ActivateReset(p) ==
    /\ projects[p].exists
    /\ activeIndex' = NoIndex
    /\ activeProjectID' = p
    /\ ingestStatus' = IdleStatus
    /\ IF projects[p].Status = "ready"
       THEN Receive([kind |-> "activate", project |-> p, pc |-> "lookup", idx |-> NoIndex])
       ELSE Answered
    /\ indexLoading' = FALSE
    /\ UNCHANGED <<lruVars, pipelineIdle, closed, queryRet, ingestCancel, projects, vectors, runs>>

\* handleActivateProject: indexCache.get: a hit fills the active slot, a miss
\* starts the background load
ActivateLookup(q) ==
    /\ CacheGet(q.project)
    /\ activeIndex' = IF lruRet'.ok THEN lruRet'.value ELSE activeIndex
    /\ IF lruRet'.ok THEN Finish(q) ELSE Continue(q, "load")
    /\ indexLoading' = IF lruRet'.ok THEN indexLoading ELSE TRUE
    /\ UNCHANGED <<streak, pipelineIdle, closed, queryRet, ingestStatus, activeProjectID, ingestCancel,
                   projects, vectors, runs>>

\* loadChatIndexes: no vectors file: error
LoadNoVectors(q) ==
    /\ vectors[q.project] = NoRun
    /\ Continue(q, "loaded")
    /\ UNCHANGED <<lruVars, pipelineIdle, closed, queryRet, indexLoading,
                   ingestStatus, activeProjectID, activeIndex,
                   ingestCancel, projects, vectors, runs>>

\* loadChatIndexes: NewIndex and idx.LoadVectors read the vectors file
LoadVectors(q) ==
    /\ vectors[q.project] # NoRun
    /\ reqs' = BagAdd(BagRemove(reqs, q),
                      [q EXCEPT !.pc = "install", !.idx = -vectors[q.project]])
    /\ issued' = issued
    /\ UNCHANGED <<lruVars, pipelineIdle, closed, queryRet, indexLoading,
                   ingestStatus, activeProjectID, activeIndex,
                   ingestCancel, projects, vectors, runs>>

\* the Indexes the cache holds
CachedIndexes == {e.value : e \in SeqRange(indexCache.order)}

\* loadChatIndexes, had indexCache.put closed the Index it evicts
LoadIndexesClosingEvicted(q) ==
    /\ activeIndex' = q.idx
    /\ activeProjectID' = q.project
    /\ CachePut(q.project, q.idx)
    /\ Continue(q, "loaded")
    /\ closed' = closed \cup (CachedIndexes \ {e.value : e \in SeqRange(indexCache'.order)})
    /\ UNCHANGED <<streak, pipelineIdle, queryRet, indexLoading,
                   ingestStatus, ingestCancel, projects, vectors, runs>>

\* loadChatIndexes: the Index loaded from disk is installed and cached
LoadIndexes(q) ==
    /\ activeIndex' = q.idx
    /\ activeProjectID' = q.project
    /\ CachePut(q.project, q.idx)
    /\ Continue(q, "loaded")
    /\ UNCHANGED <<streak, pipelineIdle, closed, queryRet, indexLoading,
                   ingestStatus, ingestCancel, projects, vectors, runs>>

\* the loader goroutine, had it cleared indexLoading only after a load that succeeded
LoaderDoneKeepsFlag(q) ==
    /\ indexLoading' = IF q.idx = NoIndex THEN indexLoading ELSE FALSE
    /\ Finish(q)
    /\ UNCHANGED <<lruVars, pipelineIdle, closed, queryRet,
                   ingestStatus, activeProjectID, activeIndex,
                   ingestCancel, projects, vectors, runs>>

\* the loader goroutine of handleActivateProject: indexLoading = false
LoaderDone(q) ==
    /\ indexLoading' = FALSE
    /\ Finish(q)
    /\ UNCHANGED <<lruVars, pipelineIdle, closed, queryRet,
                   ingestStatus, activeProjectID, activeIndex,
                   ingestCancel, projects, vectors, runs>>

\* handleFiles DELETE: the project's active Index is closed, its cache entry dropped
ClearFilesClose(p) ==
    /\ activeIndex' = IF activeProjectID = p THEN NoIndex ELSE activeIndex
    /\ CacheDelete(p)
    /\ Receive([kind |-> "clear", project |-> p, pc |-> "remove", idx |-> NoIndex])
    /\ closed' = IF activeProjectID = p /\ activeIndex # NoIndex
                 THEN closed \cup {activeIndex} ELSE closed
    /\ UNCHANGED <<streak, pipelineIdle, queryRet, indexLoading,
                   ingestStatus, activeProjectID, ingestCancel,
                   projects, vectors, runs>>

\* handleFiles DELETE: uploads, BM25 directory and vectors file are removed; the
\* project record goes to upload with no files and no chunks
ClearFilesRemove(q) ==
    /\ vectors' = [vectors EXCEPT ![q.project] = NoRun]
    /\ projects' = [projects EXCEPT
                      ![q.project].hasFiles = FALSE,
                      ![q.project].ChunkCount = IF projects[q.project].exists THEN 0 ELSE @,
                      ![q.project].Status = IF projects[q.project].exists THEN "upload" ELSE @]
    /\ Continue(q, "reset")
    /\ UNCHANGED <<lruVars, pipelineIdle, closed, queryRet, indexLoading,
                   ingestStatus, activeProjectID, activeIndex,
                   ingestCancel, runs>>

\* handleFiles DELETE: ingestStatus.reset()
ClearFilesReset(q) ==
    /\ ingestStatus' = IdleStatus
    /\ Finish(q)
    /\ UNCHANGED <<lruVars, pipelineIdle, closed, queryRet, indexLoading,
                   activeProjectID, activeIndex, ingestCancel,
                   projects, vectors, runs>>

\* handleDeleteProject: when p is the active project the current run is
\* cancelled, the active slot emptied and IngestStatus reset; the cache entry goes
DeleteProjectLock(p) ==
    /\ IF activeProjectID = p
       THEN /\ runs' = IF ingestCancel # NoRun THEN Cancelled(runs, ingestCancel) ELSE runs
            /\ ingestCancel' = NoRun
            /\ activeIndex' = NoIndex
            /\ activeProjectID' = NoProject
            /\ ingestStatus' = IdleStatus
       ELSE UNCHANGED <<runs, ingestCancel, activeIndex, activeProjectID, ingestStatus>>
    /\ CacheDelete(p)
    /\ Receive([kind |-> "delete", project |-> p, pc |-> "store", idx |-> NoIndex])
    /\ closed' = IF activeProjectID = p /\ activeIndex # NoIndex
                 THEN closed \cup {activeIndex} ELSE closed
    /\ UNCHANGED <<streak, pipelineIdle, queryRet, indexLoading,
                   projects, vectors>>

\* handleDeleteProject: projects.Delete removes the record and the project directory
DeleteProjectStore(q) ==
    /\ projects' = [projects EXCEPT ![q.project].exists = FALSE,
                      ![q.project].hasFiles = IF projects[q.project].exists THEN FALSE ELSE @]
    /\ vectors' = IF projects[q.project].exists THEN [vectors EXCEPT ![q.project] = NoRun]
                  ELSE vectors
    /\ Finish(q)
    /\ UNCHANGED <<lruVars, pipelineIdle, closed, queryRet, indexLoading,
                   ingestStatus, activeProjectID, activeIndex,
                   ingestCancel, runs>>

RunGoes(r, pc) == runs' = [runs EXCEPT ![r].pc = pc]

\* runIngestion: an old Index of the project in the active slot is closed
RunSetup(r) ==
    /\ runs[r].pc = "setup"
    /\ activeIndex' = IF activeProjectID = runs[r].project THEN NoIndex ELSE activeIndex
    /\ RunGoes(r, "extract")
    /\ closed' = IF activeProjectID = runs[r].project /\ activeIndex # NoIndex
                 THEN closed \cup {activeIndex} ELSE closed
    /\ UNCHANGED <<lruVars, pipelineIdle, queryRet, indexLoading,
                   ingestStatus, activeProjectID, ingestCancel,
                   projects, vectors, reqs, issued>>

\* the extraction worker read the upload, sent its pages and wrote FilesDone
RunExtracted(r) ==
    /\ runs[r].pc = "extract"
    /\ projects[runs[r].project].hasFiles
    /\ ingestStatus' = [ingestStatus EXCEPT !.FilesDone = RunFiles]
    /\ RunGoes(r, "chunk")
    /\ UNCHANGED <<lruVars, pipelineIdle, closed, queryRet, indexLoading,
                   activeProjectID, activeIndex, ingestCancel,
                   projects, vectors, reqs, issued>>

\* the extraction worker sent an error and wrote FilesDone; the consumer records
\* the file as failed
RunExtractFailed(r) ==
    /\ runs[r].pc = "extract"
    /\ ingestStatus' = [ingestStatus EXCEPT !.FilesDone = RunFiles]
    /\ runs' = [runs EXCEPT ![r].pc = "barrier", ![r].failed = TRUE]
    /\ UNCHANGED <<lruVars, pipelineIdle, closed, queryRet, indexLoading,
                   activeProjectID, activeIndex, ingestCancel,
                   projects, vectors, reqs, issued>>

\* the extraction worker saw the cancellation at its select
RunExtractSkipped(r) ==
    /\ runs[r].pc = "extract"
    /\ runs[r].cancelled
    /\ RunGoes(r, "barrier")
    /\ UNCHANGED <<lruVars, pipelineIdle, closed, queryRet, indexLoading,
                   ingestStatus, activeProjectID, activeIndex,
                   ingestCancel, projects, vectors, reqs, issued>>

\* the consumer received the result with ctx.Err() != nil: break
RunConsumerBreak(r) ==
    /\ runs[r].pc = "chunk"
    /\ runs[r].cancelled
    /\ RunGoes(r, "barrier")
    /\ UNCHANGED <<lruVars, pipelineIdle, closed, queryRet, indexLoading,
                   ingestStatus, activeProjectID, activeIndex,
                   ingestCancel, projects, vectors, reqs, issued>>

\* the consumer chunked the file and published ChunksTotal
RunChunked(r) ==
    /\ runs[r].pc = "chunk"
    /\ ~runs[r].cancelled
    /\ ingestStatus' = [ingestStatus EXCEPT !.ChunksTotal = ProjectChunks(runs[r].project)]
    /\ RunGoes(r, "embed")
    /\ UNCHANGED <<lruVars, pipelineIdle, closed, queryRet, indexLoading,
                   activeProjectID, activeIndex, ingestCancel,
                   projects, vectors, reqs, issued>>

\* the embedding task finished: embedProgress published both counters
RunEmbedded(r) ==
    /\ runs[r].pc = "embed"
    /\ ingestStatus' = [ingestStatus EXCEPT !.ChunksTotal = ProjectChunks(runs[r].project),
                                            !.ChunksDone = ProjectChunks(runs[r].project)]
    /\ RunGoes(r, "barrier")
    /\ UNCHANGED <<lruVars, pipelineIdle, closed, queryRet, indexLoading,
                   activeProjectID, activeIndex, ingestCancel,
                   projects, vectors, reqs, issued>>

\* EmbedAndIndex returned an error; it is recorded when ctx.Err() == nil
RunEmbedFailed(r) ==
    /\ runs[r].pc = "embed"
    /\ runs' = [runs EXCEPT ![r].pc = "barrier", ![r].failed = ~runs[r].cancelled]
    /\ UNCHANGED <<lruVars, pipelineIdle, closed, queryRet, indexLoading,
                   ingestStatus, activeProjectID, activeIndex,
                   ingestCancel, projects, vectors, reqs, issued>>

\* after the barrier, ctx.Err() != nil: Phase = "cancelled", the Index is closed
RunCancelled(r) ==
    /\ runs[r].pc = "barrier"
    /\ runs[r].cancelled
    /\ ingestStatus' = [ingestStatus EXCEPT !.Phase = "cancelled"]
    /\ RunGoes(r, "exit")
    /\ closed' = closed \cup {r}
    /\ UNCHANGED <<lruVars, pipelineIdle, queryRet, indexLoading,
                   activeProjectID, activeIndex, ingestCancel,
                   projects, vectors, reqs, issued>>

\* the same, had the error checks come before the check of ctx.Err()
RunErrorBeforeCancelled(r) ==
    /\ runs[r].pc = "barrier"
    /\ runs[r].failed
    /\ ingestStatus' = [ingestStatus EXCEPT !.Phase = "error"]
    /\ RunGoes(r, "exit")
    /\ closed' = closed \cup {r}
    /\ UNCHANGED <<lruVars, pipelineIdle, queryRet, indexLoading,
                   activeProjectID, activeIndex, ingestCancel,
                   projects, vectors, reqs, issued>>

\* !anyFileOk or firstErr != nil: Phase = "error", the Index is closed
RunError(r) ==
    /\ runs[r].pc = "barrier"
    /\ ~runs[r].cancelled
    /\ runs[r].failed
    /\ ingestStatus' = [ingestStatus EXCEPT !.Phase = "error"]
    /\ RunGoes(r, "exit")
    /\ closed' = closed \cup {r}
    /\ UNCHANGED <<lruVars, pipelineIdle, queryRet, indexLoading,
                   activeProjectID, activeIndex, ingestCancel,
                   projects, vectors, reqs, issued>>

\* the three checks after the barrier passed
RunChecked(r) ==
    /\ runs[r].pc = "barrier"
    /\ ~runs[r].cancelled
    /\ ~runs[r].failed
    /\ RunGoes(r, "save")
    /\ UNCHANGED <<lruVars, pipelineIdle, closed, queryRet, indexLoading,
                   ingestStatus, activeProjectID, activeIndex,
                   ingestCancel, projects, vectors, reqs, issued>>

\* idx.SaveVectors(vectorsPath)
RunSave(r) ==
    /\ runs[r].pc = "save"
    /\ vectors' = [vectors EXCEPT ![runs[r].project] = r]
    /\ RunGoes(r, "phase")
    /\ UNCHANGED <<lruVars, pipelineIdle, closed, queryRet, indexLoading,
                   ingestStatus, activeProjectID, activeIndex,
                   ingestCancel, projects, reqs, issued>>

\* Phase = "done"; ChunksDone = ChunksTotal = len(idx.Chunks)
RunDone(r) ==
    /\ runs[r].pc = "phase"
    /\ ingestStatus' = [ingestStatus EXCEPT !.Phase = "done",
                                            !.ChunksDone = ProjectChunks(runs[r].project),
                                            !.ChunksTotal = ProjectChunks(runs[r].project)]
    /\ runs' = [runs EXCEPT ![r].pc = "install", ![r].wroteDone = TRUE]
    /\ UNCHANGED <<lruVars, pipelineIdle, closed, queryRet, indexLoading,
                   activeProjectID, activeIndex, ingestCancel,
                   projects, vectors, reqs, issued>>

\* the Index is installed in the active slot and put in the cache
RunInstall(r) ==
    /\ runs[r].pc = "install"
    /\ activeIndex' = r
    /\ activeProjectID' = runs[r].project
    /\ CachePut(runs[r].project, r)
    /\ RunGoes(r, "persist")
    /\ UNCHANGED <<streak, pipelineIdle, closed, queryRet, indexLoading,
                   ingestStatus, ingestCancel, projects, vectors,
                   reqs, issued>>

\* the project record, when it still exists, becomes ready with its chunk count
RunPersist(r) ==
    /\ runs[r].pc = "persist"
    /\ projects' = IF projects[runs[r].project].exists
                   THEN [projects EXCEPT ![runs[r].project].Status = "ready",
                                         ![runs[r].project].ChunkCount =
                                              ProjectChunks(runs[r].project)]
                   ELSE projects
    /\ RunGoes(r, "exit")
    /\ UNCHANGED <<lruVars, pipelineIdle, closed, queryRet, indexLoading,
                   ingestStatus, activeProjectID, activeIndex,
                   ingestCancel, vectors, reqs, issued>>

\* deferred: ingestCancel = nil
RunExit(r) ==
    /\ runs[r].pc = "exit"
    /\ ingestCancel' = NoRun
    /\ RunGoes(r, "end")
    /\ UNCHANGED <<lruVars, pipelineIdle, closed, queryRet, indexLoading,
                   ingestStatus, activeProjectID, activeIndex,
                   projects, vectors, reqs, issued>>

IngestRejectedStep == MayReceive /\ \E p \in DOMAIN projects : IngestRejected(p)

IngestNoFilesStep == MayReceive /\ \E p \in DOMAIN projects : IngestNoFiles(p)

IngestAcceptedStep == MayReceive /\ \E p \in DOMAIN projects : IngestAccepted(p)

IngestMarkStep == \E q \in Pending("ingest", "mark") : IngestMark(q)

IngestSpawnStep == \E q \in Pending("ingest", "spawn") : IngestSpawn(q)

CancelReadStep == MayReceive /\ \E p \in DOMAIN projects : CancelRead(p)

CancelStatusStep == \E q \in Pending("cancel", "status") : CancelStatus(q)

CancelPhaseStep == \E q \in Pending("cancel", "phase") : CancelPhase(q)

ActivateNotFoundStep == MayReceive /\ \E p \in DOMAIN projects : ActivateNotFound(p)

ActivateResetStep == MayReceive /\ \E p \in DOMAIN projects : ActivateReset(p)

ActivateLookupStep == \E q \in Pending("activate", "lookup") : ActivateLookup(q)

LoadNoVectorsStep == \E q \in Pending("activate", "load") : LoadNoVectors(q)

LoadVectorsStep == \E q \in Pending("activate", "load") : LoadVectors(q)

LoadIndexesStep == \E q \in Pending("activate", "install") : LoadIndexes(q)

LoaderDoneStep == \E q \in Pending("activate", "loaded") : LoaderDone(q)

ClearFilesCloseStep == MayReceive /\ \E p \in DOMAIN projects : ClearFilesClose(p)

ClearFilesRemoveStep == \E q \in Pending("clear", "remove") : ClearFilesRemove(q)

ClearFilesResetStep == \E q \in Pending("clear", "reset") : ClearFilesReset(q)

DeleteProjectLockStep == MayReceive /\ \E p \in DOMAIN projects : DeleteProjectLock(p)

DeleteProjectStoreStep == \E q \in Pending("delete", "store") : DeleteProjectStore(q)

RunSetupStep == \E r \in Runs : RunSetup(r)

RunExtractedStep == \E r \in Runs : RunExtracted(r)

RunExtractFailedStep == \E r \in Runs : RunExtractFailed(r)

RunExtractSkippedStep == \E r \in Runs : RunExtractSkipped(r)

RunConsumerBreakStep == \E r \in Runs : RunConsumerBreak(r)

RunChunkedStep == \E r \in Runs : RunChunked(r)

RunEmbeddedStep == \E r \in Runs : RunEmbedded(r)

RunEmbedFailedStep == \E r \in Runs : RunEmbedFailed(r)

RunCancelledStep == \E r \in Runs : RunCancelled(r)

RunErrorStep == \E r \in Runs : RunError(r)

RunCheckedStep == \E r \in Runs : RunChecked(r)

RunSaveStep == \E r \in Runs : RunSave(r)

RunDoneStep == \E r \in Runs : RunDone(r)

RunInstallStep == \E r \in Runs : RunInstall(r)

RunPersistStep == \E r \in Runs : RunPersist(r)

RunExitStep == \E r \in Runs : RunExit(r)

NextServer ==
    \/ IngestRejectedStep
    \/ IngestNoFilesStep
    \/ IngestAcceptedStep
    \/ IngestMarkStep
    \/ IngestSpawnStep
    \/ CancelReadStep
    \/ CancelStatusStep
    \/ CancelPhaseStep
    \/ ActivateNotFoundStep
    \/ ActivateResetStep
    \/ ActivateLookupStep
    \/ LoadNoVectorsStep
    \/ LoadVectorsStep
    \/ LoadIndexesStep
    \/ LoaderDoneStep
    \/ ClearFilesCloseStep
    \/ ClearFilesRemoveStep
    \/ ClearFilesResetStep
    \/ DeleteProjectLockStep
    \/ DeleteProjectStoreStep
    \/ RunSetupStep
    \/ RunExtractedStep
    \/ RunExtractFailedStep
    \/ RunExtractSkippedStep
    \/ RunConsumerBreakStep
    \/ RunChunkedStep
    \/ RunEmbeddedStep
    \/ RunEmbedFailedStep
    \/ RunCancelledStep
    \/ RunErrorStep
    \/ RunCheckedStep
    \/ RunSaveStep
    \/ RunDoneStep
    \/ RunInstallStep
    \/ RunPersistStep
    \/ RunExitStep

SpecServer == InitCacheOnly /\ [][NextServer]_vars

\* C1: at most one ingestion run is ever active: under any interleaving of
\* ingest, cancel, activate-project, clear-files and delete-project requests,
\* while a run has not returned every further handleIngest is rejected and
\* starts no second run.
C1_SingleActiveRun == Cardinality(ActiveRuns) <= 1

\* C2: if cancel is requested while a run for project P is in phase processing,
\* then once the cancel handler and the run have finished (the ingest and the
\* cancel being the only requests made), the phase is cancelled, the run has
\* written no vectors file, P's persisted status is upload and the run's Index
\* is not in the active slot.
C2_CancelledRunLeavesNothing ==
    \A r \in Runs :
        (/\ runs[r].pc = "end"
         /\ runs[r].cancelledIn = "processing"
         /\ reqs = EmptyBag
         /\ issued = 2)
        => /\ ingestStatus.Phase = "cancelled"
           /\ vectors[runs[r].project] # r
           /\ projects[runs[r].project].Status = "upload"
           /\ activeIndex # r

\* C6: when a run ends with phase done (no request being in flight), the
\* IngestStatus snapshot satisfies chunks_done = chunks_total = number of chunks
\* of the built index = the persisted chunk_count, and files_done <= files_total.
C6_DoneSnapshot ==
    [][\A r \in Runs :
         (/\ runs[r].pc = "exit"
          /\ runs'[r].pc = "end"
          /\ runs[r].wroteDone
          /\ ingestStatus'.Phase = "done"
          /\ reqs' = EmptyBag)
         => /\ ingestStatus'.ChunksDone = ProjectChunks(runs[r].project)
            /\ ingestStatus'.ChunksTotal = ProjectChunks(runs[r].project)
            /\ projects'[runs[r].project].exists =>
                   projects'[runs[r].project].ChunkCount = ProjectChunks(runs[r].project)
            /\ ingestStatus'.FilesDone <= ingestStatus'.FilesTotal]_vars

(***************************************************************************)
(* handleQuery and the activation of ingested projects (SpecQuery)         *)
(*                                                                         *)
(* The server has been restarted after maxCacheSize + 1 projects were      *)
(* ingested, one run each; the first few of them have been activated in    *)
(* turn since, so their Indexes are loaded and cached; a query of the      *)
(* first may still be under way.  Requests activate and query the          *)
(* projects; no ingestion runs.                                            *)
(***************************************************************************)
MaxQueryRequests == 3

QueryProjects == 1..(maxCacheSize + 1)

\* the run that ingested project p, after it returned
PastRun(p) == [NewRun(p) EXCEPT !.pc = "end", !.wroteDone = TRUE]

\* the project an Index belongs to: the project of the run that built it or
\* wrote the file it was loaded from
IndexProject(i) == runs[IF i < 0 THEN -i ELSE i].project

RECURSIVE LoadedInTurn(_)
\* the cache after projects 1..k were loaded in turn by loadChatIndexes
LoadedInTurn(k) ==
    IF k = 0 THEN newLRUCache(maxCacheSize) ELSE lruPut(LoadedInTurn(k - 1), k, -k)

\* getRetrieverForProject: the active slot answers for the active project
QueryActive(p) ==
    /\ activeProjectID = p
    /\ activeIndex # NoIndex
    /\ Receive([kind |-> "query", project |-> p, pc |-> "search", idx |-> activeIndex])
    /\ UNCHANGED <<lruVars, pipelineIdle, closed, queryRet, indexLoading, ingestStatus,
                   activeProjectID, activeIndex, ingestCancel, projects, vectors, runs>>

\* getRetrieverForProject: otherwise indexCache.get answers
QueryCached(p) ==
    /\ ~(activeProjectID = p /\ activeIndex # NoIndex)
    /\ CacheGet(p)
    /\ lruRet'.ok
    /\ Receive([kind |-> "query", project |-> p, pc |-> "search", idx |-> lruRet'.value])
    /\ UNCHANGED <<streak, pipelineIdle, closed, queryRet, indexLoading, ingestStatus,
                   activeProjectID, activeIndex, ingestCancel, projects, vectors, runs>>

\* getRetrieverForProject: "no index loaded for project"; handleQuery answers 400
QueryNoIndex(p) ==
    /\ ~(activeProjectID = p /\ activeIndex # NoIndex)
    /\ CacheGet(p)
    /\ ~lruRet'.ok
    /\ Answered
    /\ queryRet' = [project |-> p, idx |-> NoIndex, outcome |-> "no index"]
    /\ UNCHANGED <<streak, pipelineIdle, closed, indexLoading, ingestStatus,
                   activeProjectID, activeIndex, ingestCancel, projects, vectors, runs>>

\* handleQuery: rw.ret.Search; the lexical search fails on a closed BM25 handle
QuerySearch(q) ==
    /\ queryRet' = [project |-> q.project, idx |-> q.idx,
                    outcome |-> IF q.idx \in closed THEN "retrieval error" ELSE "answered"]
    /\ Finish(q)
    /\ UNCHANGED <<lruVars, pipelineIdle, closed, indexLoading, ingestStatus,
                   activeProjectID, activeIndex, ingestCancel, projects, vectors, runs>>

\* a query of project 1 that got the active retriever while project 1 was the
\* last project loaded, and has not searched yet
EarlyQuery == [kind |-> "query", project |-> 1, pc |-> "search", idx |-> -1]

InitQuery ==
    /\ lruRet = Void
    /\ streak = <<>>
    /\ ingestStatus = IdleStatus
    /\ NoExtraction
    /\ NoEmbedding
    /\ ingestCancel = NoRun
    /\ projects = [p \in QueryProjects |->
                     [exists |-> TRUE, Status |-> "ready", ChunkCount |-> ProjectChunks(p),
                      hasFiles |-> TRUE]]
    /\ vectors = [p \in QueryProjects |-> p]
    /\ runs = [p \in QueryProjects |-> PastRun(p)]
    /\ issued = 0
    /\ closed = {}
    /\ queryRet = NoQuery
    /\ indexLoading = FALSE
    /\ Apart("")
    /\ \E k \in 0..maxCacheSize :
          /\ indexCache = LoadedInTurn(k)
          /\ touched = [i \in 1..k |-> i]
          /\ activeProjectID = k
          /\ activeIndex = -k
          /\ reqs \in {EmptyBag} \cup {BagAdd(EmptyBag, EarlyQuery) : j \in 1..Min(k, 1)}

MayQuery == issued < MaxQueryRequests

QryActivateStep == MayQuery /\ \E p \in DOMAIN projects : ActivateReset(p)

QueryActiveStep == MayQuery /\ \E p \in DOMAIN projects : QueryActive(p)

QueryCachedStep == MayQuery /\ \E p \in DOMAIN projects : QueryCached(p)

QueryNoIndexStep == MayQuery /\ \E p \in DOMAIN projects : QueryNoIndex(p)

QuerySearchStep == \E q \in Pending("query", "search") : QuerySearch(q)

NextQuery ==
    \/ QryActivateStep
    \/ ActivateLookupStep
    \/ LoadVectorsStep
    \/ LoadIndexesStep
    \/ LoaderDoneStep
    \/ QueryActiveStep
    \/ QueryCachedStep
    \/ QueryNoIndexStep
    \/ QuerySearchStep

SpecQuery == InitQuery /\ [][NextQuery]_vars

\* the query requests that hold a retriever and have not searched yet
Searching == Pending("query", "search")

\* C11: evicting an entry from the index cache never closes the evicted Index:
\* a query that obtained a project's retriever before the loading of further
\* projects evicted the project still searches an open lexical handle, and no
\* query ends in a retrieval error.
C11_EvictionNeverCloses ==
    /\ \A q \in Searching : q.idx \notin CachedIndexes => q.idx \notin closed
    /\ queryRet.outcome # "retrieval error"

\* a query holds the retriever of a project that the full cache has dropped
C11_Witness ==
    \E q \in Searching :
        /\ q.idx = -q.project
        /\ ~lruHas(indexCache, q.project)
        /\ Len(indexCache.order) = maxCacheSize

\* the query requests for project p that this step received and gave a retriever
GivenRetriever(p) ==
    {q \in BagToSet(reqs') :
        /\ q.kind = "query"
        /\ q.project = p
        /\ CopiesIn(q, reqs') > CopiesIn(q, reqs)}

\* this step answered a query for project p with "no index loaded"
ToldNoIndex(p) ==
    /\ issued' = issued + 1
    /\ reqs' = reqs
    /\ activeProjectID' = activeProjectID
    /\ activeIndex' = activeIndex
    /\ queryRet'.outcome = "no index"
    /\ queryRet'.project = p

\* C12: getRetrieverForProject(P) returns P's retriever whenever P's Index is
\* in the cache, whatever the active slot holds and whether or not a load is
\* under way; it reports "no index loaded" only when P is neither the active
\* project with a retriever nor in the cache.
C12_RetrieverOfCachedProject ==
    [][\A p \in DOMAIN projects :
          /\ lruHas(indexCache, p) =>
                /\ ~ToldNoIndex(p)
                /\ \A q \in GivenRetriever(p) : IndexProject(q.idx) = p
          /\ ToldNoIndex(p) =>
                /\ ~lruHas(indexCache, p)
                /\ ~(activeProjectID = p /\ activeIndex # NoIndex)]_vars

\* C20: activating a ready project whose Index is in the cache installs exactly
\* the project's cached Index and Retriever as the active pair before the
\* handler returns, spawns no loader and leaves index_loading false.
C20_CacheHitActivation ==
    [][\A q \in Pending("activate", "lookup") :
          (/\ CopiesIn(q, reqs') < CopiesIn(q, reqs)
           /\ projects[q.project].Status = "ready"
           /\ lruHas(indexCache, q.project))
          => /\ activeIndex' = EntryOf(indexCache.order, q.project).value
             /\ activeProjectID' = q.project
             /\ reqs' = BagRemove(reqs, q)
             /\ indexLoading' = FALSE]_vars

\* C13: once handleDeleteProject(P) has returned successfully, whatever loader
\* or ingestion run for P was in flight, neither the active slot nor the index
\* cache holds an Index for P, then or later.
C13_DeletedProjectHoldsNoIndex ==
    \A p \in DOMAIN projects :
        ~projects[p].exists =>
            /\ ~lruHas(indexCache, p)
            /\ ~(activeProjectID = p /\ activeIndex # NoIndex)

\* a request about project p is being handled
BeingHandled(p) == \E q \in BagToSet(reqs) : q.project = p

\* C19: a project's persisted status changes only along: processing when an
\* ingest starts, processing -> ready on successful completion, back to upload
\* on cancellation or file clear; and once a cancel or file-clear request for
\* the project has been handled the status does not become ready unless a new
\* ingest request for the project is made afterwards.
C19_StatusTransitions ==
    [][\A p \in DOMAIN projects :
          projects'[p].Status # projects[p].Status =>
             /\ \/ projects'[p].Status = "processing"
                \/ projects'[p].Status = "upload"
                \/ projects[p].Status = "processing" /\ projects'[p].Status = "ready"
                \/ BeingHandled(p)
             /\ (projects[p].Status = "upload" /\ projects'[p].Status = "ready")
                   => BeingHandled(p)]_vars

(***************************************************************************)
(* Ingest and cancel requests only (SpecJob): the runs and what they leave *)
(***************************************************************************)
MaxJobRequests == 2

MayIngest == issued < MaxJobRequests

JobIngestRejectedStep == MayIngest /\ \E p \in DOMAIN projects : IngestRejected(p)

JobIngestAcceptedStep == MayIngest /\ \E p \in DOMAIN projects : IngestAccepted(p)

JobCancelReadStep == MayIngest /\ \E p \in DOMAIN projects : CancelRead(p)

NextJob ==
    \/ JobIngestRejectedStep
    \/ JobIngestAcceptedStep
    \/ IngestMarkStep
    \/ IngestSpawnStep
    \/ JobCancelReadStep
    \/ CancelStatusStep
    \/ CancelPhaseStep
    \/ RunSetupStep
    \/ RunExtractedStep
    \/ RunExtractFailedStep
    \/ RunExtractSkippedStep
    \/ RunConsumerBreakStep
    \/ RunChunkedStep
    \/ RunEmbeddedStep
    \/ RunEmbedFailedStep
    \/ RunCancelledStep
    \/ RunErrorStep
    \/ RunCheckedStep
    \/ RunSaveStep
    \/ RunDoneStep
    \/ RunInstallStep
    \/ RunPersistStep
    \/ RunExitStep

SpecJob == InitCacheOnly /\ [][NextJob]_vars

\* run r has returned, or is about to, without having chosen phase done
EndedNotDone(r) == runs[r].pc \in {"exit", "end"} /\ ~runs[r].wroteDone

\* C14: after the barrier the terminal phase is chosen by the first rule that
\* matches: scope cancelled -> cancelled; no file extracted -> error; an
\* embedding task returned an error -> error; otherwise done.  In the first
\* three cases the run's Index is closed and is neither saved, cached nor
\* installed as active, and the run does not mark the project ready.
C14_TerminalPhase ==
    [][/\ \A r \in Runs :
             /\ (runs[r].pc = "barrier" /\ runs'[r].pc # "barrier") =>
                   IF runs[r].cancelled
                   THEN ingestStatus'.Phase = "cancelled" /\ runs'[r].pc = "exit"
                   ELSE IF runs[r].failed
                        THEN ingestStatus'.Phase = "error" /\ runs'[r].pc = "exit"
                        ELSE runs'[r].pc = "save" /\ r \notin closed'
             /\ (runs[r].pc = "phase" /\ runs'[r].pc # "phase") =>
                   ingestStatus'.Phase = "done" /\ runs'[r].wroteDone
             /\ EndedNotDone(r)' =>
                   /\ r \in closed'
                   /\ vectors'[runs[r].project] # r
                   /\ r \notin CachedIndexes'
                   /\ activeIndex' # r
       /\ \A p \in DOMAIN projects :
             (projects[p].Status # "ready" /\ projects'[p].Status = "ready") =>
                \E r \in Runs : /\ runs[r].project = p
                                /\ runs[r].wroteDone
                                /\ runs[r].pc = "persist"
                                /\ runs'[r].pc = "exit"]_vars

\* a run that was cancelled after its only file had failed has ended in phase
\* cancelled with its Index closed
C14_Witness ==
    \E r \in Runs : /\ EndedNotDone(r)
                    /\ runs[r].cancelled
                    /\ runs[r].failed
                    /\ ingestStatus.Phase = "cancelled"
                    /\ r \in closed

(***************************************************************************)
(* Activation of ready projects after a restart: the loader goroutine of   *)
(* handleActivateProject and loadChatIndexes, with loads that fail.        *)
(***************************************************************************)
MaxLoadRequests == 2

\* the project whose SaveVectors failed at the end of its run: ready, no vectors file
Unsaved == maxCacheSize + 1

\* loadChatIndexes: NewIndex or idx.LoadVectors returned an error (the Index opened,
\* if any, is closed and dropped): error
LoadFailed(q) ==
    /\ vectors[q.project] # NoRun
    /\ Continue(q, "loaded")
    /\ UNCHANGED <<lruVars, pipelineIdle, closed, queryRet, indexLoading,
                   ingestStatus, activeProjectID, activeIndex,
                   ingestCancel, projects, vectors, runs>>

InitLoad ==
    /\ lruRet = Void
    /\ streak = <<>>
    /\ ingestStatus = IdleStatus
    /\ NoExtraction
    /\ NoEmbedding
    /\ ingestCancel = NoRun
    /\ projects = [p \in QueryProjects |->
                     [exists |-> TRUE, Status |-> "ready", ChunkCount |-> ProjectChunks(p),
                      hasFiles |-> TRUE]]
    /\ vectors = [p \in QueryProjects |-> IF p = Unsaved THEN NoRun ELSE p]
    /\ runs = [p \in QueryProjects |-> PastRun(p)]
    /\ issued = 0
    /\ reqs = EmptyBag
    /\ closed = {}
    /\ queryRet = NoQuery
    /\ indexLoading = FALSE
    /\ Apart("")
    /\ \E k \in 0..(maxCacheSize - 1) :
          /\ indexCache = LoadedInTurn(k)
          /\ touched = [i \in 1..k |-> i]
          /\ activeProjectID = k
          /\ activeIndex = -k

MayLoad == issued < MaxLoadRequests

LoadActivateStep == MayLoad /\ \E p \in DOMAIN projects : ActivateReset(p)

LoadFailedStep == \E q \in Pending("activate", "load") : LoadFailed(q)

NextLoad ==
    \/ LoadActivateStep
    \/ ActivateLookupStep
    \/ LoadNoVectorsStep
    \/ LoadVectorsStep
    \/ LoadFailedStep
    \/ LoadIndexesStep
    \/ LoaderDoneStep

SpecLoad == InitLoad /\ [][NextLoad]_vars

\* the step is taken by the activation q, which goes on as h
Goes(q, h) == reqs' = BagAdd(BagRemove(reqs, q), h)

\* the loaders in flight in reqs
Loaders(rs) == {q \in BagToSet(rs) : q.kind = "activate" /\ q.pc \in {"load", "install", "loaded"}}

\* C21: an activation of a ready project that misses the cache sets index_loading
\* and goes on as a loader; the loader that succeeds puts the pair it loaded into the
\* cache and installs it as the active pair of its project; the loader that fails
\* changes neither the cache nor the active slot; the end of a loader, failed or
\* not, clears index_loading, which is never set without a loader in flight.
C21_LoaderProtocol ==
    [][ /\ \A q \in Pending("activate", "lookup") :
               (CopiesIn(q, reqs') < CopiesIn(q, reqs) /\ ~lruHas(indexCache, q.project)) =>
                   indexLoading' /\ Goes(q, [q EXCEPT !.pc = "load"])
        /\ \A q \in Pending("activate", "install") :
               CopiesIn(q, reqs') < CopiesIn(q, reqs) =>
                   /\ lruGetResult(indexCache', q.project) = [ok |-> TRUE, value |-> q.idx]
                   /\ activeIndex' = q.idx
                   /\ activeProjectID' = q.project
                   /\ q.idx = -vectors[q.project]
        /\ \A q \in Pending("activate", "load") :
               Goes(q, [q EXCEPT !.pc = "loaded"]) =>
                   UNCHANGED <<indexCache, activeIndex, activeProjectID>>
        /\ \A q \in Pending("activate", "loaded") :
               CopiesIn(q, reqs') < CopiesIn(q, reqs) => ~indexLoading'
        /\ indexLoading' => Loaders(reqs') # {}
      ]_vars

\* two loaders are about to end: the one of the unsaved project failed, the other
\* one loaded its project, which is cached and active
C21_Witness ==
    \E q \in Pending("activate", "loaded") : \E h \in Pending("activate", "loaded") :
        /\ q.project = Unsaved
        /\ q.idx = NoIndex
        /\ h.idx # NoIndex
        /\ activeIndex = h.idx
        /\ activeProjectID = h.project
        /\ lruHas(indexCache, h.project)
        /\ ~lruHas(indexCache, Unsaved)
        /\ indexLoading

(***************************************************************************)
(* ProjectStore.SaveMessage on one conversation, called by the goroutines  *)
(* that handleQuery starts after answering.                                *)
(***************************************************************************)
MaxSavers == 2

userMsg(g) == 2 * g - 1

assistantMsg(g) == 2 * g

\* the other components idle, the conversation just created: no messages file
InitMessages ==
    /\ InitLRU
    /\ ingestStatus = IdleStatus
    /\ NoExtraction
    /\ NoEmbedding
    /\ ServerAtStart
    /\ Apart("messages")
    /\ msgsFile = <<>>
    /\ savers = <<>>

\* handleQuery: go func() { SaveMessage(userMsg); SaveMessage(assistantMsg) }()
StartSaver ==
    /\ Len(savers) < MaxSavers
    /\ savers' = Append(savers, [pc |-> "load", msgs |-> <<>>,
                                 todo |-> <<userMsg(Len(savers) + 1), assistantMsg(Len(savers) + 1)>>])
    /\ UNCHANGED msgsFile

\* SaveMessage: msgs, _ := s.LoadMessages(...) (a missing or empty file gives nil)
SaveLoad(g) ==
    /\ savers[g].pc = "load"
    /\ savers' = [savers EXCEPT ![g].pc = "create", ![g].msgs = msgsFile]
    /\ UNCHANGED msgsFile

\* saveMessages: os.WriteFile opens the file with O_TRUNC
SaveTruncate(g) ==
    /\ savers[g].pc = "create"
    /\ msgsFile' = <<>>
    /\ savers' = [savers EXCEPT ![g].pc = "write"]

\* saveMessages: os.WriteFile writes the marshalled append(msgs, msg); SaveMessage returns
SaveWrite(g) ==
    /\ savers[g].pc = "write"
    /\ msgsFile' = Append(savers[g].msgs, Head(savers[g].todo))
    /\ savers' = [savers EXCEPT ![g].todo = Tail(@), ![g].msgs = <<>>,
                                ![g].pc = IF Len(savers[g].todo) > 1 THEN "load" ELSE "done"]

Savers == 1..Len(savers)

notMessages == <<lruVars, ingestStatus, exVars, embVars, serverOwn, search, docFiles, fileChunks,
               vectorFiles, saveCall, loadCall,
               pdfFile, pdfCall,
               cosCall,
               batchWrite,
               holders, tasks,
               sent, received, rangeLoop, closes>>

StartSaverStep == StartSaver /\ UNCHANGED notMessages

SaveLoadStep == \E g \in Savers : SaveLoad(g) /\ UNCHANGED notMessages

SaveTruncateStep == \E g \in Savers : SaveTruncate(g) /\ UNCHANGED notMessages

SaveWriteStep == \E g \in Savers : SaveWrite(g) /\ UNCHANGED notMessages

NextMessages ==
    \/ StartSaverStep
    \/ SaveLoadStep
    \/ SaveTruncateStep
    \/ SaveWriteStep

SpecMessages == InitMessages /\ [][NextMessages]_vars

\* the messages whose SaveMessage has returned
Appended == UNION {{userMsg(g), assistantMsg(g)} \ SeqRange(savers[g].todo) : g \in Savers}

\* C22: when no SaveMessage is running, the messages file holds every appended
\* message exactly once, and the user message of a query before its answer.
C22_AppendsSerialized ==
    (\A g \in Savers : savers[g].pc \in {"load", "done"}) =>
        /\ SeqRange(msgsFile) = Appended
        /\ Len(msgsFile) = Cardinality(Appended)
        /\ \A i, j \in 1..Len(msgsFile) :
               \A g \in Savers :
                   (msgsFile[i] = userMsg(g) /\ msgsFile[j] = assistantMsg(g)) => i < j

(***************************************************************************)
(* Retriever.Search over a small Index: reciprocal rank fusion of the two  *)
(* rankings and the page deduplication of the fused list.                  *)
(***************************************************************************)
NumChunks == 4

MaxHits == 2

MaxTopK == 2

\* const k = 60.0
rrfK == 60

\* r.Chunks: chunk ids in lexicographic order; two chunks to a page
ChunkIDs == 1..NumChunks

\* chunk.Document and chunk.PageNumber of chunk c (parentKey)
parentKey(c) == (c + 1) \div 2

\* the sequences without repetition over S that have n elements
Arrangements(S, n) == {f \in [1..n -> S] : \A i, j \in 1..n : f[i] = f[j] => i = j}

\* rank + 1 of id in the first limit entries of list, 0 when it is not there
RankIn(list, limit, id) ==
    IF \E i \in 1..Min(limit, Len(list)) : list[i] = id
    THEN CHOOSE i \in 1..Min(limit, Len(list)) : list[i] = id
    ELSE 0

vectorRanks(s, id) == RankIn(s.dense, s.topK * 3, id)

bm25Ranks(s, id) == RankIn(s.lexical, Len(s.lexical), id)

allIDs(s) == {id \in ChunkIDs : vectorRanks(s, id) > 0 \/ bm25Ranks(s, id) > 0}

\* the fused score of id as a fraction <<numerator, denominator>>:
\* 1.0 / (k + vr) for a dense rank plus 1.0 / (k + br) for a lexical rank
rrfScore(s, id) ==
    LET vr == vectorRanks(s, id)
        br == bm25Ranks(s, id)
    IN  IF vr > 0 /\ br > 0 THEN <<(rrfK + vr) + (rrfK + br), (rrfK + vr) * (rrfK + br)>>
        ELSE IF vr > 0 THEN <<1, rrfK + vr>>
        ELSE IF br > 0 THEN <<1, rrfK + br>>
        ELSE <<0, 1>>

\* fused[i].score > fused[j].score
ScoreGreater(a, b) == a[1] * b[2] > b[1] * a[2]

\* a Search call on some state of the Index and some query: any cosine order of
\* the chunks, any list of at most MaxHits BM25 hits, any topK
InitSearch ==
    /\ InitLRU
    /\ ingestStatus = IdleStatus
    /\ NoExtraction
    /\ NoEmbedding
    /\ ServerAtStart
    /\ Apart("search")
    /\ \E d \in Arrangements(ChunkIDs, NumChunks) :
       \E n \in 0..MaxHits : \E l \in Arrangements(ChunkIDs, n) :
       \E t \in 1..MaxTopK :
           search = [pc |-> "start", dense |-> d, lexical |-> l, topK |-> t,
                     fused |-> <<>>, results |-> <<>>]

\* steps 4 and 5: the ids are taken from a map and sorted with sort.Slice on the
\* score alone: any order in which no entry has a greater score than one before it
SearchFuse ==
    /\ search.pc = "start"
    /\ \E f \in Arrangements(allIDs(search), Cardinality(allIDs(search))) :
           /\ \A i, j \in 1..Len(f) :
                  i < j => ~ScoreGreater(rrfScore(search, f[j]), rrfScore(search, f[i]))
           /\ search' = [search EXCEPT !.pc = "fused", !.fused = f]

RECURSIVE dedupLoopNoSeen(_, _, _, _, _)
\* the loop, had it not recorded the pages it has taken
dedupLoopNoSeen(fused, i, seen, results, topK) ==
    IF i > Len(fused) \/ Len(results) >= topK THEN results
    ELSE dedupLoopNoSeen(fused, i + 1, seen, Append(results, fused[i]), topK)

RECURSIVE dedupLoop(_, _, _, _, _)
\* for _, f := range fused: break at topK results, skip a seen parentKey
dedupLoop(fused, i, seen, results, topK) ==
    IF i > Len(fused) \/ Len(results) >= topK THEN results
    ELSE IF parentKey(fused[i]) \in seen THEN dedupLoop(fused, i + 1, seen, results, topK)
    ELSE dedupLoop(fused, i + 1, seen \cup {parentKey(fused[i])},
                   Append(results, fused[i]), topK)

\* step 6: the result list
SearchCollect ==
    /\ search.pc = "fused"
    /\ search' = [search EXCEPT !.pc = "done",
                                !.results = dedupLoop(search.fused, 1, {}, <<>>, search.topK)]

notSearch == <<lruVars, ingestStatus, exVars, embVars, serverOwn, msgsFile, savers,
               docFiles, fileChunks,
               vectorFiles, saveCall, loadCall,
               pdfFile, pdfCall,
               cosCall,
               batchWrite,
               holders, tasks,
               sent, received, rangeLoop, closes>>

SearchFuseStep == SearchFuse /\ UNCHANGED notSearch

SearchCollectStep == SearchCollect /\ UNCHANGED notSearch

NextSearch ==
    \/ SearchFuseStep
    \/ SearchCollectStep

SpecSearch == InitSearch /\ [][NextSearch]_vars

\* C23: the fused list holds the candidates in descending order of
\* 1/(60 + dense rank) + 1/(60 + lexical rank), a missing rank counting 0, and
\* candidates of equal score in ascending order of chunk id: it is the one list
\* that the rankings determine.
C23_FusedOrderDetermined ==
    search.pc \in {"fused", "done"} =>
        /\ SeqRange(search.fused) = allIDs(search)
        /\ \A i, j \in 1..Len(search.fused) :
               i < j =>
                   LET a == rrfScore(search, search.fused[i])
                       b == rrfScore(search, search.fused[j])
                   IN  \/ ScoreGreater(a, b)
                       \/ ~ScoreGreater(b, a) /\ search.fused[i] < search.fused[j]

\* the positions of the fused list whose page has not appeared at an earlier position
FirstOfPage(f) == {i \in 1..Len(f) : \A j \in 1..(i - 1) : parentKey(f[j]) # parentKey(f[i])}

\* C24: the result list is the fused list without the entries whose page appeared
\* earlier in it, cut after top_k entries: its pages are pairwise distinct, it has
\* at most top_k entries, and the chunk it returns for a page is the first chunk of
\* that page in the fused order.
C24_ResultsDedupPages ==
    search.pc = "done" =>
        LET f == search.fused
            r == search.results
            firsts == FirstOfPage(f)
        IN  /\ Len(r) = Min(search.topK, Cardinality(firsts))
            /\ \A n \in 1..Len(r) :
                   \E i \in firsts : /\ Cardinality({j \in firsts : j <= i}) = n
                                     /\ r[n] = f[i]
            /\ \A m, n \in 1..Len(r) : parentKey(r[m]) = parentKey(r[n]) => m = n

\* the second entry of the fused list shares the page of the first and is dropped:
\* the two results are the first and the third entry
C24_Witness ==
    /\ search.pc = "done"
    /\ search.topK = 2
    /\ Len(search.fused) = NumChunks
    /\ parentKey(search.fused[1]) = parentKey(search.fused[2])
    /\ search.results = <<search.fused[1], search.fused[3]>>

(***************************************************************************)
(* Index.ChunkPages on the extracted files of a run.  A text is a sequence *)
(* of tokens: a word (a positive number) or one whitespace character (0).  *)
(* A name or a chunk id is a sequence of characters.                       *)
(***************************************************************************)
MaxPages == 2

\* chunkSize := 150
chunkSize == 150

\* overlap := 30
overlap == 30

\* strings.Fields: the words of a text, in order
Fields(text) == SelectSeq(text, LAMBDA t : t # 0)

\* strings.Join(words, " ")
Join(words) ==
    [i \in 1..(IF words = <<>> THEN 0 ELSE 2 * Len(words) - 1) |->
        IF i % 2 = 1 THEN words[(i + 1) \div 2] ELSE 0]

RECURSIVE itoa(_)
\* %d of a number that is not negative
itoa(n) ==
    LET digit == <<"0", "1", "2", "3", "4", "5", "6", "7", "8", "9">>[(n % 10) + 1]
    IN  IF n < 10 THEN <<digit>> ELSE Append(itoa(n \div 10), digit)

\* the id, had it been made of the page number and the count alone
chunkIDWithoutDocument(document, pageNumber, n) ==
    <<"p">> \o itoa(pageNumber) \o <<"_", "c">> \o itoa(n)

\* fmt.Sprintf("%s_p%d_c%d", page.Document, page.PageNumber, len(indexChunks))
chunkID(document, pageNumber, n) ==
    document \o <<"_", "p">> \o itoa(pageNumber) \o <<"_", "c">> \o itoa(n)

RECURSIVE windowLoopNoOverlap(_, _, _, _)
\* the loop over the words of a page, had it stepped by chunkSize
windowLoopNoOverlap(page, words, i, indexChunks) ==
    IF i >= Len(words) THEN indexChunks
    ELSE LET end == Min(i + chunkSize, Len(words))
             chunk == [ID |-> chunkID(page.Document, page.PageNumber, Len(indexChunks)),
                       Document |-> page.Document, PageNumber |-> page.PageNumber,
                       Text |-> Join(SubSeq(words, i + 1, end)), ParentText |-> page.Text]
         IN  IF end = Len(words) THEN Append(indexChunks, chunk)
             ELSE windowLoopNoOverlap(page, words, i + chunkSize, Append(indexChunks, chunk))

RECURSIVE windowLoopParentOfWindow(_, _, _, _)
\* the loop, had it kept the window as the parent text of the chunk
windowLoopParentOfWindow(page, words, i, indexChunks) ==
    IF i >= Len(words) THEN indexChunks
    ELSE LET end == Min(i + chunkSize, Len(words))
             chunk == [ID |-> chunkID(page.Document, page.PageNumber, Len(indexChunks)),
                       Document |-> page.Document, PageNumber |-> page.PageNumber,
                       Text |-> Join(SubSeq(words, i + 1, end)),
                       ParentText |-> Join(SubSeq(words, i + 1, end))]
         IN  IF end = Len(words) THEN Append(indexChunks, chunk)
             ELSE windowLoopParentOfWindow(page, words, i + (chunkSize - overlap),
                                           Append(indexChunks, chunk))

RECURSIVE windowLoopCountsInPage(_, _, _, _)
\* the loop, had it numbered the chunks of each page from 0
windowLoopCountsInPage(page, words, i, indexChunks) ==
    IF i >= Len(words) THEN indexChunks
    ELSE LET end == Min(i + chunkSize, Len(words))
             chunk == [ID |-> chunkID(page.Document, page.PageNumber, i \div (chunkSize - overlap)),
                       Document |-> page.Document, PageNumber |-> page.PageNumber,
                       Text |-> Join(SubSeq(words, i + 1, end)), ParentText |-> page.Text]
         IN  IF end = Len(words) THEN Append(indexChunks, chunk)
             ELSE windowLoopCountsInPage(page, words, i + (chunkSize - overlap),
                                         Append(indexChunks, chunk))

RECURSIVE windowLoop(_, _, _, _)
\* for i := 0; i < len(words); i += (chunkSize - overlap), with break at the last word
windowLoop(page, words, i, indexChunks) ==
    IF i >= Len(words) THEN indexChunks
    ELSE LET end == Min(i + chunkSize, Len(words))
             chunk == [ID |-> chunkID(page.Document, page.PageNumber, Len(indexChunks)),
                       Document |-> page.Document, PageNumber |-> page.PageNumber,
                       Text |-> Join(SubSeq(words, i + 1, end)), ParentText |-> page.Text]
         IN  IF end = Len(words) THEN Append(indexChunks, chunk)
             ELSE windowLoop(page, words, i + (chunkSize - overlap), Append(indexChunks, chunk))

RECURSIVE pagesLoop(_, _, _)
\* for _, page := range docChunks
pagesLoop(docChunks, k, indexChunks) ==
    IF k > Len(docChunks) THEN indexChunks
    ELSE pagesLoop(docChunks, k + 1,
                   windowLoop(docChunks[k], Fields(docChunks[k].Text), 0, indexChunks))

ChunkPages(docChunks) == pagesLoop(docChunks, 1, <<>>)

\* a page text of w words, the words separated as style says
PageText(w, style) ==
    LET word(i) == (i % 3) + 1
        body == IF style = "double"
                THEN [i \in 1..(IF w = 0 THEN 0 ELSE 3 * w - 2) |->
                         IF i % 3 = 1 THEN word((i + 2) \div 3) ELSE 0]
                ELSE Join([i \in 1..w |-> word(i)])
    IN  IF style = "padded" THEN <<0>> \o body \o <<0, 0>> ELSE body

\* word counts around the chunk size and the window step
PageWords == {0, 1, chunkSize, chunkSize + 1, 2 * chunkSize - overlap, 2 * chunkSize - overlap + 1}

\* file names that look like parts of a chunk id
DocNames == {<<"a">>, <<"a", "_", "p", "1">>, <<"a", "_", "p", "1", "_", "c", "0">>,
             <<"a", "_", "c", "1">>, <<"1">>}

\* the pages 1..Len(ws) of the file called name, page k of ws[k] words
DocOf(name, ws, style) ==
    [k \in 1..Len(ws) |-> [Document |-> name, PageNumber |-> k, Text |-> PageText(ws[k], style)]]

\* the names of the two files and the whitespace of the first: any two different
\* names with single whitespace, or the plain names with the other styles
FilePairs ==
    {<<n1, n2, "single">> : n1 \in DocNames, n2 \in DocNames} \cup
    {<<<<"a">>, <<"1">>, style>> : style \in {"double", "padded"}}

\* a run of two files with different names: the first of up to MaxPages pages of any
\* of the word counts, the second of one page
InitChunk ==
    /\ InitLRU
    /\ ingestStatus = IdleStatus
    /\ NoExtraction
    /\ NoEmbedding
    /\ ServerAtStart
    /\ Apart("chunking")
    /\ fileChunks = <<>>
    /\ \E v \in FilePairs :
       \E ws \in SeqsUpTo(PageWords, MaxPages) : \E w2 \in {1, chunkSize + 1} :
           /\ v[1] # v[2]
           /\ Len(ws) >= 1
           /\ docFiles = <<DocOf(v[1], ws, v[3]), DocOf(v[2], <<w2>>, "single")>>

\* runIngestion: fileChunks := idx.ChunkPages(docChunks) for the next extracted file
ChunkFile ==
    /\ Len(fileChunks) < Len(docFiles)
    /\ fileChunks' = Append(fileChunks, ChunkPages(docFiles[Len(fileChunks) + 1]))
    /\ UNCHANGED docFiles

notChunking == <<lruVars, ingestStatus, exVars, embVars, serverOwn, msgsFile, savers, search,
               vectorFiles, saveCall, loadCall,
               pdfFile, pdfCall,
               cosCall,
               batchWrite,
               holders, tasks,
               sent, received, rangeLoop, closes>>

ChunkFileStep == ChunkFile /\ UNCHANGED notChunking

NextChunk == ChunkFileStep

SpecChunk == InitChunk /\ [][NextChunk]_vars

\* the chunks that file f got for its page k
ChunksOfPage(f, k) ==
    SelectSeq(fileChunks[f], LAMBDA c : c.PageNumber = docFiles[f][k].PageNumber)

\* ceil((w - overlap) / (chunkSize - overlap)) for w >= chunkSize
WindowsFor(w) == ((w - overlap) + (chunkSize - overlap) - 1) \div (chunkSize - overlap)

\* C25: a page of W words gets 0 chunks when W = 0, one when 0 < W <= 150 and
\* ceil((W - 30) / 120) when W >= 150; every chunk but the last of a page has
\* exactly 150 words, and no chunk has more.
C25_ChunkCount ==
    \A f \in 1..Len(fileChunks) : \A k \in 1..Len(docFiles[f]) :
        LET w == Len(Fields(docFiles[f][k].Text))
            cs == ChunksOfPage(f, k)
        IN  /\ w = 0 => Len(cs) = 0
            /\ (0 < w /\ w <= chunkSize) => Len(cs) = 1
            /\ w >= chunkSize => Len(cs) = WindowsFor(w)
            /\ \A n \in 1..Len(cs) :
                   /\ Len(Fields(cs[n].Text)) <= chunkSize
                   /\ n < Len(cs) => Len(Fields(cs[n].Text)) = chunkSize

\* a page of 271 words has been cut into three chunks
C25_Witness ==
    /\ Len(fileChunks) >= 1
    /\ Len(Fields(docFiles[1][1].Text)) = 2 * chunkSize - overlap + 1
    /\ Len(ChunksOfPage(1, 1)) = 3
    /\ Len(Fields(ChunksOfPage(1, 1)[3].Text)) = overlap + 1

\* idx.Chunks after the run: the chunks of all its files
AllChunks == UNION {{<<f, n>> : n \in 1..Len(fileChunks[f])} : f \in 1..Len(fileChunks)}

\* C26: the chunk ids of a run over files with different names are pairwise
\* distinct, whatever the pages and chunks of the files.
C26_ChunkIDsDistinct ==
    \A x, y \in AllChunks :
        fileChunks[x[1]][x[2]].ID = fileChunks[y[1]][y[2]].ID => x = y

\* both files are chunked, the first into three chunks or more; the first chunks of
\* the two files are both chunk 0 of a page 1, and the name of one file is the
\* beginning of the id of a chunk of the other
C26_Witness ==
    /\ Len(fileChunks) = 2
    /\ Len(fileChunks[1]) >= 3
    /\ fileChunks[2] # <<>>
    /\ docFiles[1][1].Document = <<"a">>
    /\ docFiles[2][1].Document = <<"a", "_", "p", "1", "_", "c", "0">>
    /\ fileChunks[1][1].ID = docFiles[2][1].Document

\* the text with every run of whitespace replaced by one whitespace character
Collapsed(text) ==
    LET marked == [i \in 1..Len(text) |-> <<text[i], IF i > 1 THEN text[i - 1] ELSE 1>>]
        kept == SelectSeq(marked, LAMBDA m : ~(m[1] = 0 /\ m[2] = 0))
    IN  [i \in 1..Len(kept) |-> kept[i][1]]

IsSubstring(t, p) ==
    \E off \in 0..(Len(p) - Len(t)) : \A i \in 1..Len(t) : p[off + i] = t[i]

\* C27: every chunk carries as parent_text the whole text of its page, the same
\* for all chunks of the page, and its text is a substring of parent_text once
\* the runs of whitespace of parent_text are collapsed.
C27_ParentTextKept ==
    \A f \in 1..Len(fileChunks) : \A k \in 1..Len(docFiles[f]) :
        LET cs == ChunksOfPage(f, k)
            collapsed == Collapsed(docFiles[f][k].Text)
        IN  \A n \in 1..Len(cs) :
                /\ cs[n].ParentText = docFiles[f][k].Text
                /\ IsSubstring(cs[n].Text, collapsed)

\* a page whose words are two whitespace characters apart has been cut into three
\* chunks; the text of the last one is not a substring of the page text as it is
C27_Witness ==
    /\ Len(fileChunks) >= 1
    /\ Len(ChunksOfPage(1, 1)) = 3
    /\ ~IsSubstring(ChunksOfPage(1, 1)[3].Text, docFiles[1][1].Text)
    /\ ChunksOfPage(1, 1)[3].ParentText = ChunksOfPage(1, 1)[1].ParentText

(***************************************************************************)
(* Index.SaveVectors and Index.LoadVectors on the two vector files of a    *)
(* project.  A file is absent, unreadable for its decoder, or holds an     *)
(* encoded vectorStore (gob, JSON) or a legacy JSON array of chunks.       *)
(***************************************************************************)
MaxSavedChunks == 2

NoFile == [kind |-> "none", Chunks |-> <<>>, DocSummaries |-> <<>>]

Garbled == [kind |-> "garbled", Chunks |-> <<>>, DocSummaries |-> <<>>]

\* gob.NewEncoder(f).Encode(store) / json.Marshal(store)
Encoded(kind, store) == [kind |-> kind, Chunks |-> store.Chunks, DocSummaries |-> store.DocSummaries]

\* what an earlier run of the project saved
EarlierStore == [Chunks |-> <<-1>>, DocSummaries |-> <<-1>>]

\* the Indexes to save: up to MaxSavedChunks chunks, with or without a summary
StoresToSave ==
    {[Chunks |-> [i \in 1..n |-> i], DocSummaries |-> ds] :
        n \in 0..MaxSavedChunks, ds \in {<<>>, <<1>>}}

\* any earlier content of the project directory, any Index to save
InitVectors ==
    /\ InitLRU
    /\ ingestStatus = IdleStatus
    /\ NoExtraction
    /\ NoEmbedding
    /\ ServerAtStart
    /\ Apart("vectors")
    /\ \E g \in {NoFile, Garbled, Encoded("gob", EarlierStore)} :
       \E j \in {NoFile, Garbled, Encoded("json", EarlierStore),
                 [kind |-> "legacy", Chunks |-> <<-1>>, DocSummaries |-> <<>>]} :
           vectorFiles = [gob |-> g, json |-> j]
    /\ \E st \in StoresToSave : saveCall = [pc |-> "binary", store |-> st, err |-> FALSE]
    /\ loadCall = [pc |-> "wait", Chunks |-> <<>>, DocSummaries |-> <<>>, err |-> FALSE]

\* saveVectorsBinary: os.Create and Encode succeed
SaveBinary ==
    /\ saveCall.pc = "binary"
    /\ vectorFiles' = [vectorFiles EXCEPT !.gob = Encoded("gob", saveCall.store)]
    /\ saveCall' = [saveCall EXCEPT !.pc = "json"]
    /\ UNCHANGED loadCall

\* saveVectorsBinary: os.Create fails, the file is as it was; the error is logged
SaveBinaryNotCreated ==
    /\ saveCall.pc = "binary"
    /\ saveCall' = [saveCall EXCEPT !.pc = "json"]
    /\ UNCHANGED <<vectorFiles, loadCall>>

\* saveVectorsBinary: os.Create truncates, Encode fails; the error is logged
SaveBinaryCutShort ==
    /\ saveCall.pc = "binary"
    /\ vectorFiles' = [vectorFiles EXCEPT !.gob = Garbled]
    /\ saveCall' = [saveCall EXCEPT !.pc = "json"]
    /\ UNCHANGED loadCall

\* json.Marshal and os.WriteFile succeed: SaveVectors returns nil
SaveJSON ==
    /\ saveCall.pc = "json"
    /\ vectorFiles' = [vectorFiles EXCEPT !.json = Encoded("json", saveCall.store)]
    /\ saveCall' = [saveCall EXCEPT !.pc = "returned"]
    /\ UNCHANGED loadCall

\* os.WriteFile fails, before or after it truncated the file: SaveVectors returns the error
SaveJSONFailed ==
    /\ saveCall.pc = "json"
    /\ \E j \in {vectorFiles.json, Garbled} : vectorFiles' = [vectorFiles EXCEPT !.json = j]
    /\ saveCall' = [saveCall EXCEPT !.pc = "returned", !.err = TRUE]
    /\ UNCHANGED loadCall

\* LoadVectors on a fresh Index: the binary file when it is there and decodes, else
\* the JSON file: a vectorStore with chunks, else a legacy array, else the error
loadVectors(files) ==
    IF files.gob.kind = "gob"
    THEN [pc |-> "returned", Chunks |-> files.gob.Chunks,
          DocSummaries |-> files.gob.DocSummaries, err |-> FALSE]
    ELSE IF files.json.kind = "json" /\ Len(files.json.Chunks) > 0
    THEN [pc |-> "returned", Chunks |-> files.json.Chunks,
          DocSummaries |-> files.json.DocSummaries, err |-> FALSE]
    ELSE IF files.json.kind = "legacy"
    THEN [pc |-> "returned", Chunks |-> files.json.Chunks, DocSummaries |-> <<>>, err |-> FALSE]
    ELSE [pc |-> "returned", Chunks |-> <<>>, DocSummaries |-> <<>>, err |-> TRUE]

\* loadChatIndexes after the save has returned: idx.LoadVectors(vectorsPath)
LoadSaved ==
    /\ saveCall.pc = "returned"
    /\ loadCall.pc = "wait"
    /\ loadCall' = loadVectors(vectorFiles)
    /\ UNCHANGED <<vectorFiles, saveCall>>

notVectors == <<lruVars, ingestStatus, exVars, embVars, serverOwn, msgsFile, savers, search,
                docFiles, fileChunks,
               pdfFile, pdfCall,
               cosCall,
               batchWrite,
               holders, tasks,
               sent, received, rangeLoop, closes>>

SaveBinaryStep == SaveBinary /\ UNCHANGED notVectors

SaveBinaryNotCreatedStep == SaveBinaryNotCreated /\ UNCHANGED notVectors

SaveBinaryCutShortStep == SaveBinaryCutShort /\ UNCHANGED notVectors

SaveJSONStep == SaveJSON /\ UNCHANGED notVectors

SaveJSONFailedStep == SaveJSONFailed /\ UNCHANGED notVectors

LoadSavedStep == LoadSaved /\ UNCHANGED notVectors

NextVectors ==
    \/ SaveBinaryStep
    \/ SaveBinaryNotCreatedStep
    \/ SaveBinaryCutShortStep
    \/ SaveJSONStep
    \/ SaveJSONFailedStep
    \/ LoadSavedStep

SpecVectors == InitVectors /\ [][NextVectors]_vars

\* C28: when SaveVectors returned success and the LoadVectors that follows on a
\* fresh Index succeeds, the loaded chunks and document summaries are the ones
\* saved, whatever the directory held before and whichever of the two writes failed.
C28_SaveLoadRoundTrip ==
    (loadCall.pc = "returned" /\ ~saveCall.err /\ ~loadCall.err) =>
        /\ loadCall.Chunks = saveCall.store.Chunks
        /\ loadCall.DocSummaries = saveCall.store.DocSummaries

(***************************************************************************)
(* extractor.ExtractPDF with its OCR fallback, and the chunking of the     *)
(* page list it returns.  A page of the PDF either yields text (more than  *)
(* 20 bytes after trimming) or is scanned (null, unreadable or near        *)
(* empty).                                                                 *)
(***************************************************************************)
MaxPdfPages == 3

MaxZipFiles == 2

\* the words of a text-extracted page: two windows for ChunkPages
TextWords == chunkSize + 1

pdfName == <<"a">>

\* what p.GetPlainText gives for a page that yields text
ExtractedText == PageText(TextWords, "single")

\* what the OCR engine gives for its image, section or file number i
OcrText(i) == Join(<<4, 4 + i>>)

\* nil, or a configuration with nothing to run
NoOCR == [Provider |-> "", TesseractOk |-> FALSE, SarvamKey |-> ""]

OCRConfigs ==
    {NoOCR,
     [Provider |-> "", TesseractOk |-> TRUE, SarvamKey |-> ""],
     [Provider |-> "sarvam", TesseractOk |-> FALSE, SarvamKey |-> "key"],
     [Provider |-> "tesseract", TesseractOk |-> TRUE, SarvamKey |-> "key"]}

canRunOCR(cfg) == cfg.Provider # "" \/ cfg.TesseractOk \/ cfg.SarvamKey # ""

OcrErr == [err |-> TRUE, chunks |-> <<>>]

\* the members of a set of numbers in increasing order
Ascending(S) ==
    CHOOSE s \in [1..Cardinality(S) -> S] : \A i, j \in 1..Cardinality(S) : i < j => s[i] < s[j]

\* one record per kept image or section, numbered by its position, in that order
NumberedPages(S) ==
    [err |-> FALSE,
     chunks |-> [k \in 1..Cardinality(S) |->
                    [PageNumber |-> Ascending(S)[k], Document |-> pdfName,
                     Text |-> OcrText(Ascending(S)[k])]]]

\* tesseractOCR: one image per page, pageNum := idx + 1, the pages that gave text
\* sorted by page number; an error when nothing could be run or read
tesseractOCR(n) == {OcrErr} \cup {NumberedPages(S) : S \in (SUBSET (1..n)) \ {{}}}

\* splitMergedMarkdownIntoPages: the sections of the one file, PageNumber i + 1
splitMergedMarkdownIntoPages(n) == {NumberedPages(S) : S \in (SUBSET (1..n)) \ {{}}}

\* sarvamDownloadAndParse with several text files in the ZIP: file i is page
\* extractPageNum(name) when its name holds a number, else page i + 1; nums[i] is
\* that number, 0 for none
zipFilesAsPages(n) ==
    {[err |-> FALSE,
      chunks |-> [i \in 1..Len(nums) |->
                    [PageNumber |-> IF nums[i] > 0 THEN nums[i] ELSE i, Document |-> pdfName,
                     Text |-> OcrText(i)]]] :
        nums \in UNION {[1..k -> 0..n] : k \in 2..MaxZipFiles}}

sarvamOCR(n) == {OcrErr} \cup splitMergedMarkdownIntoPages(n) \cup zipFilesAsPages(n)

\* RunOCR: the configured provider, then the other one if the first failed
RunOCR(cfg, n) ==
    IF cfg.Provider = "tesseract"
    THEN (tesseractOCR(n) \ {OcrErr}) \cup (IF cfg.SarvamKey # "" THEN sarvamOCR(n) ELSE {OcrErr})
    ELSE IF cfg.Provider = "sarvam"
    THEN (sarvamOCR(n) \ {OcrErr}) \cup (IF cfg.TesseractOk THEN tesseractOCR(n) ELSE {OcrErr})
    ELSE IF cfg.TesseractOk THEN tesseractOCR(n)
    ELSE IF cfg.SarvamKey # "" THEN sarvamOCR(n)
    ELSE {OcrErr}

\* any PDF of up to MaxPdfPages pages that opens or not, any OCR configuration
InitPDF ==
    /\ InitLRU
    /\ ingestStatus = IdleStatus
    /\ NoExtraction
    /\ NoEmbedding
    /\ ServerAtStart
    /\ Apart("pdf")
    /\ \E n \in 1..MaxPdfPages : \E pages \in [1..n -> {"text", "scanned"}] :
       \E opens \in BOOLEAN : \E cfg \in OCRConfigs :
           pdfFile = [opens |-> opens, pages |-> pages, cfg |-> cfg]
    /\ pdfCall = [pc |-> "open", chunks |-> <<>>, emptyPages |-> <<>>, ret |-> <<>>, err |-> FALSE]

Returns(list, err) == pdfCall' = [pdfCall EXCEPT !.pc = "returned", !.ret = list, !.err = err]

\* pdf.Open, the loop over the pages, and the decision about OCR
ExtractText ==
    /\ pdfCall.pc = "open"
    /\ LET numPages == Len(pdfFile.pages)
           textPages == SelectSeq([k \in 1..numPages |-> k], LAMBDA k : pdfFile.pages[k] = "text")
           emptyPages == SelectSeq([k \in 1..numPages |-> k], LAMBDA k : pdfFile.pages[k] # "text")
           chunks == [i \in 1..Len(textPages) |->
                        [PageNumber |-> textPages[i], Document |-> pdfName, Text |-> ExtractedText]]
       IN  IF ~pdfFile.opens
           THEN IF canRunOCR(pdfFile.cfg)
                THEN pdfCall' = [pdfCall EXCEPT !.pc = "ocrWhole"]
                ELSE Returns(<<>>, TRUE)
           ELSE IF chunks = <<>> /\ numPages > 0
           THEN IF canRunOCR(pdfFile.cfg)
                THEN pdfCall' = [pdfCall EXCEPT !.pc = "ocrWhole", !.emptyPages = emptyPages]
                ELSE Returns(<<>>, TRUE)
           ELSE IF emptyPages # <<>> /\ canRunOCR(pdfFile.cfg)
           THEN pdfCall' = [pdfCall EXCEPT !.pc = "ocrMerge", !.chunks = chunks,
                                           !.emptyPages = emptyPages]
           ELSE pdfCall' = [pdfCall EXCEPT !.pc = "returned", !.chunks = chunks,
                                           !.emptyPages = emptyPages, !.ret = chunks]
    /\ UNCHANGED <<pdfFile, docFiles, fileChunks>>

\* return RunOCR(*ocrCfg, filePath)
OCRWhole ==
    /\ pdfCall.pc = "ocrWhole"
    /\ \E res \in RunOCR(pdfFile.cfg, Len(pdfFile.pages)) : Returns(res.chunks, res.err)
    /\ UNCHANGED <<pdfFile, docFiles, fileChunks>>

\* havePages of the text-extracted chunks; every OCR chunk of another page is appended
merge(chunks, ocrChunks) ==
    LET havePages == {chunks[i].PageNumber : i \in 1..Len(chunks)}
    IN  chunks \o SelectSeq(ocrChunks, LAMBDA c : c.PageNumber \notin havePages)

\* the OCR run for a partially scanned PDF: its failure is logged, its pages are merged
OCRMerge ==
    /\ pdfCall.pc = "ocrMerge"
    /\ \E res \in RunOCR(pdfFile.cfg, Len(pdfFile.pages)) :
           IF res.err THEN Returns(pdfCall.chunks, FALSE)
           ELSE Returns(merge(pdfCall.chunks, res.chunks), FALSE)
    /\ UNCHANGED <<pdfFile, docFiles, fileChunks>>

\* runIngestion: fileChunks := idx.ChunkPages(docChunks) for the file that was extracted
ChunkExtracted ==
    /\ pdfCall.pc = "returned"
    /\ ~pdfCall.err
    /\ docFiles = <<>>
    /\ docFiles' = <<pdfCall.ret>>
    /\ fileChunks' = <<ChunkPages(pdfCall.ret)>>
    /\ UNCHANGED <<pdfFile, pdfCall>>

notPDF == <<lruVars, ingestStatus, exVars, embVars, serverOwn, msgsFile, savers, search,
            vectorFiles, saveCall, loadCall,
               cosCall,
               batchWrite,
               holders, tasks,
               sent, received, rangeLoop, closes>>

ExtractTextStep == ExtractText /\ UNCHANGED notPDF

OCRWholeStep == OCRWhole /\ UNCHANGED notPDF

OCRMergeStep == OCRMerge /\ UNCHANGED notPDF

ChunkExtractedStep == ChunkExtracted /\ UNCHANGED notPDF

NextPDF ==
    \/ ExtractTextStep
    \/ OCRWholeStep
    \/ OCRMergeStep
    \/ ChunkExtractedStep

SpecPDF == InitPDF /\ [][NextPDF]_vars

\* ExtractPDF has returned a page list for a PDF with text pages and scanned pages, OCR available
MergeCase ==
    /\ pdfCall.pc = "returned"
    /\ ~pdfCall.err
    /\ pdfFile.opens
    /\ canRunOCR(pdfFile.cfg)
    /\ \E k \in DOMAIN pdfFile.pages : pdfFile.pages[k] = "text"
    /\ \E k \in DOMAIN pdfFile.pages : pdfFile.pages[k] # "text"

\* C29: for a PDF with text pages and scanned pages and OCR available, the returned
\* page list holds each page number at most once, and a page that yielded text is
\* there with its extracted text, never with OCR text.
C29_PagesOnceTextWins ==
    MergeCase =>
        /\ \A i, j \in DOMAIN pdfCall.ret :
               pdfCall.ret[i].PageNumber = pdfCall.ret[j].PageNumber => i = j
        /\ \A i \in DOMAIN pdfCall.ret :
               (/\ pdfCall.ret[i].PageNumber \in DOMAIN pdfFile.pages
                /\ pdfFile.pages[pdfCall.ret[i].PageNumber] = "text")
                   => pdfCall.ret[i].Text = ExtractedText

\* window n (from 0) of a page text, as ChunkPages cuts it
Window(text, n) ==
    LET words == Fields(text)
    IN  Join(SubSeq(words, n * (chunkSize - overlap) + 1,
                    Min(n * (chunkSize - overlap) + chunkSize, Len(words))))

\* C30: the page list ExtractPDF returns is in increasing page-number order in
\* every case, merged OCR pages included, and the chunks ChunkPages makes of it
\* are in (page, window index) order.
C30_PageAndChunkOrder ==
    /\ (pdfCall.pc = "returned" /\ ~pdfCall.err) =>
           \A i, j \in DOMAIN pdfCall.ret :
               i < j => pdfCall.ret[i].PageNumber < pdfCall.ret[j].PageNumber
    /\ \A f \in DOMAIN fileChunks :
           /\ \A i, j \in DOMAIN fileChunks[f] :
                  i < j => fileChunks[f][i].PageNumber <= fileChunks[f][j].PageNumber
           /\ \A i \in DOMAIN fileChunks[f] :
                  LET before == {j \in 1..(i - 1) :
                                    fileChunks[f][j].PageNumber = fileChunks[f][i].PageNumber}
                  IN  fileChunks[f][i].Text =
                          Window(fileChunks[f][i].ParentText, Cardinality(before))

(***************************************************************************)
(* retriever.cosineSimilarity.  The float32 components are whole numbers   *)
(* of few significant bits, and float64 arithmetic keeps float64Bits       *)
(* significant bits, rounding to nearest, ties to even: the product of two *)
(* components is exact, as in the program, and a sum may be rounded.       *)
(***************************************************************************)
float64Bits == 5

\* the float32 values of the components
Float32s == {-8, -1, 0, 1, 8}

\* the lengths of the vectors
Dims == 0..4

RECURSIVE Pow2(_)
Pow2(n) == IF n = 0 THEN 1 ELSE 2 * Pow2(n - 1)

RECURSIVE BitLen(_)
\* the number of bits of x >= 0
BitLen(x) == IF x = 0 THEN 0 ELSE 1 + BitLen(x \div 2)

\* the float64 nearest to the whole number x
RoundFloat64(x) ==
    LET mag == IF x < 0 THEN -x ELSE x
        u == Pow2(BitLen(mag) - float64Bits)
        lo == (mag \div u) * u
        r == mag - lo
        near == IF 2 * r < u THEN lo
                ELSE IF 2 * r > u THEN lo + u
                ELSE IF (lo \div u) % 2 = 0 THEN lo ELSE lo + u
    IN  IF BitLen(mag) <= float64Bits THEN x
        ELSE IF x < 0 THEN -near ELSE near

RECURSIVE sumLoop(_, _, _)
\* for i := range a { acc += float64(x[i]) * float64(y[i]) }
sumLoop(x, y, i) ==
    IF i = 0 THEN 0 ELSE RoundFloat64(sumLoop(x, y, i - 1) + x[i] * y[i])

\* a returned float64: 0, or num / sqrt(den2); NaN when den2 is 0
Zero == [num |-> 0, den2 |-> 1]

\* the function without its test of the norms
cosineSimilarityNoNormTest(a, b) ==
    IF Len(a) # Len(b) THEN Zero
    ELSE [num |-> sumLoop(a, b, Len(a)),
          den2 |-> sumLoop(a, a, Len(a)) * sumLoop(b, b, Len(a))]

cosineSimilarity(a, b) ==
    IF Len(a) # Len(b) THEN Zero
    ELSE LET dot == sumLoop(a, b, Len(a))
             normA == sumLoop(a, a, Len(a))
             normB == sumLoop(b, b, Len(a))
         IN  IF normA = 0 \/ normB = 0 THEN Zero
             ELSE [num |-> dot, den2 |-> normA * normB]

\* the value is exactly 0
IsZero(v) == v.den2 # 0 /\ v.num = 0

\* any two vectors: of one length, or short ones of different lengths
InitCosine ==
    /\ InitLRU
    /\ ingestStatus = IdleStatus
    /\ NoExtraction
    /\ NoEmbedding
    /\ ServerAtStart
    /\ Apart("cosine")
    /\ \E n \in Dims : \E m \in Dims :
           /\ n = m \/ n + m <= 3
           /\ \E a \in [1..n -> Float32s \cap Nat] : \E b \in [1..m -> Float32s] :
                  cosCall = [a |-> a, b |-> b, pc |-> "call", ret |-> Zero]

\* score := cosineSimilarity(queryVec, chunk.Embedding)
CosineCall ==
    /\ cosCall.pc = "call"
    /\ cosCall' = [cosCall EXCEPT !.pc = "returned", !.ret = cosineSimilarity(cosCall.a, cosCall.b)]

notCosine == <<lruVars, ingestStatus, exVars, embVars, serverOwn, msgsFile, savers, search,
               docFiles, fileChunks, vectorFiles, saveCall, loadCall, pdfFile, pdfCall,
               batchWrite,
               holders, tasks,
               sent, received, rangeLoop, closes>>

CosineCallStep == CosineCall /\ UNCHANGED notCosine

NextCosine == CosineCallStep

SpecCosine == InitCosine /\ [][NextCosine]_vars

RECURSIVE realSum(_, _, _)
\* the sum of the products in the real numbers
realSum(x, y, i) == IF i = 0 THEN 0 ELSE realSum(x, y, i - 1) + x[i] * y[i]

IsZeroVector(x) == \A i \in DOMAIN x : x[i] = 0

Orthogonal(a, b) ==
    /\ Len(a) = Len(b)
    /\ ~IsZeroVector(a)
    /\ ~IsZeroVector(b)
    /\ realSum(a, b, Len(a)) = 0

\* no addition of the dot product is rounded
DotExact(a, b) == \A i \in DOMAIN a : sumLoop(a, b, i) = realSum(a, b, i)

\* C31 as stated: cosineSimilarity returns exactly 0 for vectors of different
\* lengths, for a vector of zero norm (two empty vectors included), and for
\* orthogonal vectors.
C31_ZeroCases ==
    cosCall.pc = "returned" =>
        ((\/ Len(cosCall.a) # Len(cosCall.b)
          \/ IsZeroVector(cosCall.a)
          \/ IsZeroVector(cosCall.b)
          \/ Orthogonal(cosCall.a, cosCall.b)) => IsZero(cosCall.ret))

\* C31 amended: cosineSimilarity returns exactly 0 for vectors of different
\* lengths and for a vector of zero norm (two empty vectors included); for
\* orthogonal vectors it returns exactly 0 when no addition of the dot product is
\* rounded, which is so for vectors of up to three components.
C31_ZeroCasesExactDot ==
    cosCall.pc = "returned" =>
        /\ (\/ Len(cosCall.a) # Len(cosCall.b)
            \/ IsZeroVector(cosCall.a)
            \/ IsZeroVector(cosCall.b)) => cosCall.ret = Zero
        /\ (Orthogonal(cosCall.a, cosCall.b) /\ DotExact(cosCall.a, cosCall.b))
               => IsZero(cosCall.ret)
        /\ (Orthogonal(cosCall.a, cosCall.b) /\ Len(cosCall.a) <= 3) => IsZero(cosCall.ret)

\* the call has returned 0 for two orthogonal vectors of four components
C31_Witness ==
    /\ cosCall.pc = "returned"
    /\ Len(cosCall.a) = 4
    /\ Orthogonal(cosCall.a, cosCall.b)
    /\ IsZero(cosCall.ret)

\* the Indexes loaded for project p: in the active slot or in the cache, and open
LoadedFor(p) ==
    {i \in ({activeIndex} \cup CachedIndexes) \ ({NoIndex} \cup closed) : IndexProject(i) = p}

\* run r does its setup in this step
SetsUp(r) == r \in Runs /\ runs[r].pc = "setup" /\ runs'[r].pc # "setup"

\* the setup closes and discards every Index loaded for the project of the run
SetupDiscardsOwn ==
    \A r \in Runs : SetsUp(r) =>
        \A i \in LoadedFor(runs[r].project) :
            /\ i \in closed'
            /\ activeIndex' # i
            /\ i \notin {e.value : e \in SeqRange(indexCache'.order)}

\* the setup closes no Index of another project
SetupSparesOthers ==
    \A r \in Runs : SetsUp(r) =>
        \A i \in closed' \ closed : IndexProject(i) = runs[r].project

\* C32: when an ingestion run for project P starts, every Index loaded for P, in
\* the active slot or in the cache, is closed and discarded before the run removes
\* P's lexical-index directory and opens a new index there, and the run closes no
\* Index of another project.
C32_SetupClosesOwnIndexOnly == [][SetupDiscardsOwn /\ SetupSparesOthers]_vars

\* the Indexes held by the active slot, the cache, the loaders in flight and the
\* runs past their setup
HeldIndexes ==
    ({activeIndex} \cup CachedIndexes \cup {q.idx : q \in BagToSet(reqs)}
        \cup {r \in Runs : runs[r].pc \notin {"setup", "end"}}) \ {NoIndex}

\* the Indexes of project p whose lexical-index handle is open
OpenHandles(p) == {i \in HeldIndexes \ closed : IndexProject(i) = p}

\* C33: at every moment there is, for each project directory, at most one Index
\* with an open lexical-index handle among the active slot, the cache, the loaders
\* in flight and a running ingestion, whatever the interleaving of activate,
\* ingest, clear-files and delete requests.
C33_OneOpenHandlePerProject == \A p \in DOMAIN projects : Cardinality(OpenHandles(p)) <= 1

(***************************************************************************)
(* One batch goroutine of Index.EmbedAndIndex after the Embedder returned  *)
(* the embeddings of its batch: the write loop under idx.mu, in which the  *)
(* lexical index may reject any chunk, and the progress count.             *)
(*   size, k      len(batch) and the loop variable                         *)
(*   Chunks       idx.Chunks: the ids appended, each with its embedding    *)
(*   bm25         the ids the lexical index holds                          *)
(*   rejected     history: the ids the lexical index rejected              *)
(*   doneCount, reported, firstErr    as in EmbedAndIndex                  *)
(* The chunks of the batch have the ids 1..size.                           *)
(***************************************************************************)
MaxWriteBatch == 4

\* idx.Chunks after an earlier batch of e chunks, with ids below the ones of this batch
Earlier(e) == [i \in 1..e |-> [ID |-> -i, Embedding |-> TRUE]]

\* a batch of up to MaxWriteBatch chunks, the first of its call or after an earlier one
InitWrite ==
    /\ InitLRU
    /\ ingestStatus = IdleStatus
    /\ NoExtraction
    /\ NoEmbedding
    /\ ServerAtStart
    /\ Apart("write")
    /\ \E n \in 1..MaxWriteBatch : \E e \in 0..1 :
           batchWrite = [pc |-> "write", size |-> n, k |-> 0, Chunks |-> Earlier(e),
                         bm25 |-> {-i : i \in 1..e}, rejected |-> {}, doneCount |-> e,
                         reported |-> e, firstErr |-> "nil"]

\* the write loop, had a rejected chunk ended the batch with an error
WriteRejectedFails ==
    /\ batchWrite.pc = "write"
    /\ batchWrite.k < batchWrite.size
    /\ batchWrite' = [batchWrite EXCEPT !.pc = "done",
                                        !.rejected = @ \cup {batchWrite.k + 1},
                                        !.firstErr = errOnce(@, "bm25")]

\* batch[k].Embedding = emb; idx.Chunks = append(idx.Chunks, batch[k]); BM25Index.Index: nil
WriteIndexed ==
    /\ batchWrite.pc = "write"
    /\ batchWrite.k < batchWrite.size
    /\ batchWrite' = [batchWrite EXCEPT !.k = @ + 1,
                                        !.Chunks = Append(@, [ID |-> batchWrite.k + 1, Embedding |-> TRUE]),
                                        !.bm25 = @ \cup {batchWrite.k + 1}]

\* the same with an error of BM25Index.Index: it is logged and the loop goes on
WriteRejected ==
    /\ batchWrite.pc = "write"
    /\ batchWrite.k < batchWrite.size
    /\ batchWrite' = [batchWrite EXCEPT !.k = @ + 1,
                                        !.Chunks = Append(@, [ID |-> batchWrite.k + 1, Embedding |-> TRUE]),
                                        !.rejected = @ \cup {batchWrite.k + 1}]

\* idx.mu.Unlock(); doneCount += len(batch); progress(totalChunks, progressOffset + doneCount)
WriteCounted ==
    /\ batchWrite.pc = "write"
    /\ batchWrite.k = batchWrite.size
    /\ batchWrite' = [batchWrite EXCEPT !.pc = "done", !.doneCount = @ + batchWrite.size,
                                        !.reported = batchWrite.doneCount + batchWrite.size]

notWrite == <<lruVars, ingestStatus, exVars, embVars, serverOwn, msgsFile, savers, search,
              docFiles, fileChunks, vectorFiles, saveCall, loadCall, pdfFile, pdfCall, cosCall,
               holders, tasks,
               sent, received, rangeLoop, closes>>

WriteIndexedStep == WriteIndexed /\ UNCHANGED notWrite

WriteRejectedStep == WriteRejected /\ UNCHANGED notWrite

WriteCountedStep == WriteCounted /\ UNCHANGED notWrite

NextWrite ==
    \/ WriteIndexedStep
    \/ WriteRejectedStep
    \/ WriteCountedStep

SpecWrite == InitWrite /\ [][NextWrite]_vars

\* C35: a chunk that the lexical index rejects is still appended with its
\* embedding to the vector store, the chunks after it in the batch are still
\* processed, the batch counts as completed for progress, and EmbedAndIndex
\* records no error for it.
C35_LexicalErrorTolerated ==
    /\ \A id \in batchWrite.rejected :
           \E i \in DOMAIN batchWrite.Chunks :
               batchWrite.Chunks[i].ID = id /\ batchWrite.Chunks[i].Embedding
    /\ batchWrite.firstErr = "nil"
    /\ batchWrite.pc = "done" =>
           /\ \E e \in 0..1 :
                  /\ batchWrite.Chunks =
                         Earlier(e) \o [i \in 1..batchWrite.size |-> [ID |-> i, Embedding |-> TRUE]]
                  /\ batchWrite.doneCount = e + batchWrite.size
                  /\ batchWrite.reported = e + batchWrite.size
           /\ batchWrite.bm25 \cap Nat = (1..batchWrite.size) \ batchWrite.rejected

\* a batch of three chunks is done; the lexical index rejected the first of them
C35_Witness ==
    /\ batchWrite.pc = "done"
    /\ batchWrite.size = 3
    /\ batchWrite.rejected = {1}
    /\ batchWrite.bm25 = {2, 3}

RECURSIVE Flatten(_)
\* the chunk lists of the files one after the other
Flatten(lists) == IF lists = <<>> THEN <<>> ELSE Head(lists) \o Flatten(Tail(lists))

\* the id <document>_p<page>_c<n>
IdWithSuffix(c, n) ==
    c.Document \o <<"_", "p">> \o itoa(c.PageNumber) \o <<"_", "c">> \o itoa(n)

\* C36 as stated: the numeric suffix of each chunk id <document>_p<page>_c<n> is
\* the 0-based position of the chunk in the chunk list of the whole run, counted
\* across all its files.
C36_SuffixIsRunPosition ==
    \A n \in 1..Len(Flatten(fileChunks)) :
        Flatten(fileChunks)[n].ID = IdWithSuffix(Flatten(fileChunks)[n], n - 1)

\* C36 amended: the numeric suffix of each chunk id is the 0-based position of the
\* chunk in the chunk list of its own file, counted across the pages of that file;
\* the chunks of every file of a run are numbered from 0.
C36_SuffixIsFilePosition ==
    \A f \in 1..Len(fileChunks) : \A n \in 1..Len(fileChunks[f]) :
        fileChunks[f][n].ID = IdWithSuffix(fileChunks[f][n], n - 1)

\* both files are chunked: the first has two pages and its second page starts
\* with the file's fourth chunk; the second file has two chunks
C36_Witness ==
    /\ Len(fileChunks) = 2
    /\ Len(docFiles[1]) = 2
    /\ Len(ChunksOfPage(1, 1)) = 3
    /\ Len(fileChunks[1]) >= 4
    /\ fileChunks[1][4].PageNumber = 2
    /\ Len(fileChunks[2]) = 2

(***************************************************************************)
(* The server lock, the cache mutex and the IngestStatus lock (SpecLocks)  *)
(*                                                                         *)
(* Every handler, loader and ingestion goroutine is followed through the   *)
(* locks it takes and the slow work it does between them, in the order of  *)
(* its code, and is kept as the steps it has still to do; what the locked  *)
(* sections compute is left to the other specifications.  s.mu and         *)
(* ingestStatus.mu are sync.RWMutex, the mutex of lruCache is a            *)
(* sync.Mutex.  A few goroutines run at a time, each one program after     *)
(* another.                                                                *)
(***************************************************************************)
NumGoroutines == 2

LockGoroutines == 1..NumGoroutines

ServerMu == "s.mu"

CacheMu == "indexCache.mu"

StatusMu == "ingestStatus.mu"

LockNames == {ServerMu, CacheMu, StatusMu}

Lock(l) == <<[do |-> "Lock", on |-> l]>>

Unlock(l) == <<[do |-> "Unlock", on |-> l]>>

RLock(l) == <<[do |-> "RLock", on |-> l]>>

RUnlock(l) == <<[do |-> "RUnlock", on |-> l]>>

\* work outside the three locks: a network call, a search, disk I/O
Work(w) == <<[do |-> "work", on |-> w]>>

\* lruCache.get, put, delete and has: c.mu.Lock(); defer c.mu.Unlock()
lruLocked == Lock(CacheMu) \o Unlock(CacheMu)

\* IngestStatus.snapshot
snapshot == RLock(StatusMu) \o RUnlock(StatusMu)

\* IngestStatus.reset, and every s.ingestStatus.mu.Lock() ... Unlock() section
\* of runIngestion and the handlers, none of which calls anything
statusLocked == Lock(StatusMu) \o Unlock(StatusMu)

\* getRetrieverForProject: the active slot answers under the read lock, or
\* indexCache.get is asked under it; every return path unlocks first
getRetrieverForProject(active) ==
    RLock(ServerMu) \o (IF active THEN <<>> ELSE lruLocked) \o RUnlock(ServerMu)

\* handleQuery with the read lock held from getRetrieverForProject to the answer
handleQueryHoldingLock(active, found) ==
    RLock(ServerMu) \o (IF active THEN <<>> ELSE lruLocked)
    \o (IF found THEN Work("embed query") \o Work("search") \o Work("llm") ELSE <<>>)
    \o RUnlock(ServerMu)

\* handleQuery: getRetrieverForProject, then Retriever.Search (the embedding of
\* the question, the vector and lexical search) and llmClient.AnswerQuestion
handleQuery(active, found) ==
    getRetrieverForProject(active)
    \o (IF found THEN Work("embed query") \o Work("search") \o Work("llm") ELSE <<>>)

\* handleBatch: getRetrieverForProject, then one goroutine per question that
\* searches and asks the LLM; the handler waits for them
handleBatch(active, found) ==
    getRetrieverForProject(active)
    \o (IF found THEN Work("embed query") \o Work("search") \o Work("llm") ELSE <<>>)

\* handleActivateProject: the reset under the server lock, then for a ready
\* project the cache lookup under it
handleActivateProject(ready) ==
    Lock(ServerMu) \o statusLocked \o Unlock(ServerMu)
    \o (IF ready THEN Lock(ServerMu) \o lruLocked \o Unlock(ServerMu) ELSE <<>>)

\* the loader goroutine of handleActivateProject: loadChatIndexes reads the
\* files, installs and caches the Index; then indexLoading is cleared
loader(loaded) ==
    Work("load")
    \o (IF loaded THEN Lock(ServerMu) \o lruLocked \o Unlock(ServerMu) ELSE <<>>)
    \o Lock(ServerMu) \o Unlock(ServerMu)

\* handleDeleteProject
handleDeleteProject(active) ==
    Lock(ServerMu) \o (IF active THEN statusLocked ELSE <<>>) \o lruLocked \o Unlock(ServerMu)
    \o Work("delete project")

\* handleFiles, DELETE
handleFiles ==
    Lock(ServerMu) \o lruLocked \o Unlock(ServerMu) \o Work("remove files") \o statusLocked

\* handleIngest: the snapshot, and unless a run is under way the reset of
\* IngestStatus and the registration of the run
handleIngest(started) ==
    snapshot \o (IF started THEN statusLocked \o Lock(ServerMu) \o Unlock(ServerMu) ELSE <<>>)

\* the embedProgress callback of runIngestion with the server lock taken
\* inside the IngestStatus lock
embeddingGoroutineTakingServerLock ==
    Work("embed") \o Lock(StatusMu) \o RLock(ServerMu) \o RUnlock(ServerMu) \o Unlock(StatusMu)

\* an extraction task of runIngestion: the OCR settings under the read lock,
\* the extraction, FilesDone
extractionGoroutine == RLock(ServerMu) \o RUnlock(ServerMu) \o Work("extract") \o statusLocked

\* an embedding task of runIngestion: EmbedAndIndex and its embedProgress callback
embeddingGoroutine == Work("embed") \o statusLocked

\* runIngestion itself: the setup, the provider key, the consumer's
\* ChunksTotal, FileResults, the terminal phase, for a finished run the
\* installation of the Index, and the deferred clearing of ingestCancel
runIngestion(created, done) ==
    Lock(ServerMu) \o Unlock(ServerMu)
    \o (IF ~created THEN statusLocked
        ELSE RLock(ServerMu) \o RUnlock(ServerMu) \o statusLocked \o statusLocked
             \o (IF done
                 THEN Work("save") \o statusLocked \o Lock(ServerMu) \o lruLocked \o Unlock(ServerMu)
                 ELSE statusLocked))
    \o Lock(ServerMu) \o Unlock(ServerMu)

\* handleIngestStatus
handleIngestStatus == snapshot

\* handleCancelIngest
handleCancelIngest == Lock(ServerMu) \o Unlock(ServerMu) \o statusLocked

\* handleIndexStatus
handleIndexStatus(active) ==
    RLock(ServerMu) \o (IF active THEN <<>> ELSE lruLocked) \o RUnlock(ServerMu)

\* handleStats
handleStats(other) ==
    RLock(ServerMu) \o RUnlock(ServerMu)
    \o (IF other THEN RLock(ServerMu) \o lruLocked \o RUnlock(ServerMu) ELSE <<>>)

\* handleSettings: GET reads under the read lock, POST writes under the write
\* lock and persists after it
handleSettings(post) ==
    IF post THEN Lock(ServerMu) \o Unlock(ServerMu) \o Work("persist settings")
    ELSE RLock(ServerMu) \o RUnlock(ServerMu)

Program(n, s) == [name |-> n, steps |-> s]

\* what a goroutine may run, by the paths through the code that differ in locks
Programs ==
    {Program("handleQuery", handleQuery(a, f)) : a \in BOOLEAN, f \in BOOLEAN}
    \cup {Program("handleBatch", handleBatch(a, f)) : a \in BOOLEAN, f \in BOOLEAN}
    \cup {Program("handleActivateProject", handleActivateProject(r)) : r \in BOOLEAN}
    \cup {Program("loader", loader(l)) : l \in BOOLEAN}
    \cup {Program("handleDeleteProject", handleDeleteProject(a)) : a \in BOOLEAN}
    \cup {Program("handleFiles", handleFiles)}
    \cup {Program("handleIngest", handleIngest(s)) : s \in BOOLEAN}
    \cup {Program("runIngestion", runIngestion(c, d)) : c \in BOOLEAN, d \in BOOLEAN}
    \cup {Program("extraction", extractionGoroutine), Program("embedding", embeddingGoroutine)}
    \cup {Program("handleIngestStatus", handleIngestStatus)}
    \cup {Program("handleCancelIngest", handleCancelIngest)}
    \cup {Program("handleIndexStatus", handleIndexStatus(a)) : a \in BOOLEAN}
    \cup {Program("handleStats", handleStats(o)) : o \in BOOLEAN}
    \cup {Program("handleSettings", handleSettings(p)) : p \in BOOLEAN}

\* a lock nobody holds; at most one goroutine is ever in writer
Free == [writer |-> {}, readers |-> {}]

\* a goroutine that runs nothing: it has not started, or it has returned
NoProgram == [name |-> "", rest |-> <<>>]

InitLocks ==
    /\ InitLRU
    /\ ingestStatus = IdleStatus
    /\ NoExtraction
    /\ NoEmbedding
    /\ ServerAtStart
    /\ Apart("locks")
    /\ holders = [l \in LockNames |-> Free]
    /\ tasks = [t \in LockGoroutines |-> NoProgram]

\* goroutine t has returned from what it ran, or has run nothing yet
Returned(t) == tasks[t] = NoProgram

\* the next step of goroutine t
NextStep(t) == Head(tasks[t].rest)

At(t, do) == ~Returned(t) /\ NextStep(t).do = do

\* goroutine t has done its next step, and returns after its last
Advance(t) ==
    tasks' = [tasks EXCEPT ![t] = IF Len(@.rest) = 1 THEN NoProgram
                                  ELSE [@ EXCEPT !.rest = Tail(@)]]

\* the goroutines blocked in Lock on l
WaitingToLock(l) == {u \in LockGoroutines : At(u, "Lock") /\ NextStep(u).on = l}

\* a request arrives or a goroutine is spawned
StartProgram(t, p) ==
    /\ Returned(t)
    /\ tasks' = [tasks EXCEPT ![t] = [name |-> p.name, rest |-> p.steps]]
    /\ UNCHANGED holders

\* Lock returns: nobody holds the lock
LockAcquire(t) ==
    /\ At(t, "Lock")
    /\ holders[NextStep(t).on] = Free
    /\ holders' = [holders EXCEPT ![NextStep(t).on].writer = {t}]
    /\ Advance(t)

\* RLock returns: no writer holds the lock and no Lock call is blocked on it
RLockAcquire(t) ==
    /\ At(t, "RLock")
    /\ holders[NextStep(t).on].writer = {}
    /\ WaitingToLock(NextStep(t).on) \ {t} = {}
    /\ t \notin holders[NextStep(t).on].readers
    /\ holders' = [holders EXCEPT ![NextStep(t).on].readers = @ \cup {t}]
    /\ Advance(t)

LockRelease(t) ==
    /\ At(t, "Unlock")
    /\ holders' = [holders EXCEPT ![NextStep(t).on].writer = {}]
    /\ Advance(t)

RLockRelease(t) ==
    /\ At(t, "RUnlock")
    /\ holders' = [holders EXCEPT ![NextStep(t).on].readers = @ \ {t}]
    /\ Advance(t)

\* the goroutine does its slow work, however long it takes
DoWork(t) ==
    /\ At(t, "work")
    /\ Advance(t)
    /\ UNCHANGED holders

notLocks == <<lruVars, ingestStatus, exVars, embVars, serverOwn, msgsFile, savers, search,
              docFiles, fileChunks, vectorFiles, saveCall, loadCall, pdfFile, pdfCall, cosCall,
              batchWrite,
               sent, received, rangeLoop, closes>>

StartProgramStep ==
    \E t \in LockGoroutines : \E p \in Programs : StartProgram(t, p) /\ UNCHANGED notLocks

LockAcquireStep == \E t \in LockGoroutines : LockAcquire(t) /\ UNCHANGED notLocks

RLockAcquireStep == \E t \in LockGoroutines : RLockAcquire(t) /\ UNCHANGED notLocks

LockReleaseStep == \E t \in LockGoroutines : LockRelease(t) /\ UNCHANGED notLocks

RLockReleaseStep == \E t \in LockGoroutines : RLockRelease(t) /\ UNCHANGED notLocks

DoWorkStep == \E t \in LockGoroutines : DoWork(t) /\ UNCHANGED notLocks

NextLocks ==
    \/ StartProgramStep
    \/ LockAcquireStep
    \/ RLockAcquireStep
    \/ LockReleaseStep
    \/ RLockReleaseStep
    \/ DoWorkStep

SpecLocks == InitLocks /\ [][NextLocks]_vars

\* goroutine t holds lock l, for writing or for reading
Holds(t, l) == t \in holders[l].writer \cup holders[l].readers

\* goroutine t serves a query or a batch of questions
Querying(t) == ~Returned(t) /\ tasks[t].name \in {"handleQuery", "handleBatch"}

\* goroutine t is about to embed the question or search, is doing it, or has
\* the LLM call still to make or under way
InQueryWork(t) == Querying(t) /\ NextStep(t).do = "work"

\* goroutine t is inside getRetrieverForProject
ReadingRetriever(t) ==
    /\ Querying(t)
    /\ \E i \in DOMAIN tasks[t].rest : tasks[t].rest[i] = RUnlock(ServerMu)[1]

\* C37: handleQuery and handleBatch hold the server lock only while
\* getRetrieverForProject reads the active or cached retriever: a goroutine
\* that embeds the question, searches or calls the LLM holds none of the three
\* locks, so a Lock call of an activate, ingest or delete request is never
\* blocked by a query at its slow work.
C37_QueryHoldsLockOnlyToRead ==
    \A t \in LockGoroutines :
        /\ Querying(t) /\ Holds(t, ServerMu) => ReadingRetriever(t)
        /\ InQueryWork(t) => \A l \in LockNames : ~Holds(t, l)
        /\ InQueryWork(t) =>
              \A u \in WaitingToLock(ServerMu) :
                  holders[ServerMu] = Free \/ \E v \in LockGoroutines \ {t, u} : Holds(v, ServerMu)

\* a query is at its search while the activation of a project holds the
\* server lock for writing
C37_Witness ==
    \E t, u \in LockGoroutines :
        /\ InQueryWork(t)
        /\ NextStep(t).on = "search"
        /\ tasks[u].name = "handleActivateProject"
        /\ holders[ServerMu].writer = {u}

\* the goroutines that keep goroutine t from the lock it asks for: for Lock
\* every holder, for RLock the writer and every goroutine blocked in Lock
Blockers(t) ==
    IF At(t, "Lock")
    THEN (holders[NextStep(t).on].writer \cup holders[NextStep(t).on].readers)
    ELSE IF At(t, "RLock")
    THEN holders[NextStep(t).on].writer \cup (WaitingToLock(NextStep(t).on) \ {t})
    ELSE {}

\* the goroutines of G wait for locks in a circle: each of them is kept from
\* its lock by one of them
Deadlocked(G) == G # {} /\ \A t \in G : Blockers(t) \cap G # {}

\* this step gives goroutine t the server lock
TakesServerLock(t) ==
    /\ ~Holds(t, ServerMu)
    /\ t \in holders'[ServerMu].writer \cup holders'[ServerMu].readers

\* C40: the locks are taken in the order server lock, then cache mutex or
\* IngestStatus lock: no goroutine is given the server lock while it holds the
\* cache mutex or the IngestStatus lock, and no set of goroutines ever waits
\* for these locks in a circle.
C40_LockOrder ==
    [][/\ \A t \in LockGoroutines :
             TakesServerLock(t) => ~Holds(t, CacheMu) /\ ~Holds(t, StatusMu)
       /\ \A G \in SUBSET LockGoroutines : ~Deadlocked(G)']_vars

\* a goroutine holds the server lock with the IngestStatus lock or the cache
\* mutex inside it, and another goroutine waits for one of its locks
C40_Witness ==
    \E t, u \in LockGoroutines :
        /\ Holds(t, ServerMu)
        /\ Holds(t, StatusMu) \/ Holds(t, CacheMu)
        /\ t \in Blockers(u)

\* C38: whenever the active slot holds an Index and Retriever, they were built
\* for the project named by activeProjectID, under any interleaving of
\* activate requests, ingest requests, loader completions and deletes; so the
\* active branch of getRetrieverForProject(P) never hands out the retriever of
\* another project.
C38_ActivePairOfActiveProject ==
    activeIndex # NoIndex => IndexProject(activeIndex) = activeProjectID

(***************************************************************************)
(* runIngestion, the results channel (SpecResults): the extraction tasks   *)
(* send on resultsCh, the closer goroutine closes it, and the consumer     *)
(* loop ranges over it.  resultsCh counts the results sent, so the channel *)
(* holds resultsCh - received of them.                                     *)
(***************************************************************************)
MaxSendFiles == 3

\* a results channel with room for all results but one
resultsCapShort == nFiles - 1

\* make(chan extractResult, len(files))
resultsCap == nFiles

\* the results in the channel
buffered == resultsCh - received

\* a send on resultsCh returns only while the channel has room
SendReturns == buffered < resultsCap

InitResults ==
    /\ InitLRU
    /\ NoEmbedding
    /\ ServerAtStart
    /\ Apart("results")
    /\ \E n \in 1..MaxSendFiles :
          /\ StartExtraction(n)
          /\ sent = [f \in 1..n |-> 0]
    /\ received = 0
    /\ rangeLoop = "range"
    /\ closes = 0

\* the cancel branch of the select sends the error result
ResSelectCancel(f) ==
    /\ SendReturns
    /\ ExSelectCancel(f)
    /\ sent' = [sent EXCEPT ![f] = @ + 1]
    /\ UNCHANGED <<received, rangeLoop, closes>>

\* the extraction returns and its result, pages or error, is sent
ResExtract(f) ==
    /\ SendReturns
    /\ ExExtract(f)
    /\ sent' = [sent EXCEPT ![f] = @ + 1]
    /\ UNCHANGED <<received, rangeLoop, closes>>

\* the steps of an extraction task that do not touch resultsCh
ResOther(f) ==
    /\ ExAcquire(f) \/ ExBump(f) \/ ExWrite(f) \/ ExRelease(f)
    /\ UNCHANGED <<sent, received, rangeLoop, closes>>

\* the closer goroutine: extractWg.Wait(); close(resultsCh)
ResClose ==
    /\ ExClose
    /\ closes' = closes + 1
    /\ UNCHANGED <<sent, received, rangeLoop>>

\* cancel() of the run's context
ResCancel ==
    /\ CancelCtx
    /\ UNCHANGED <<nFiles, extractTask, filesDone, extractSem, resultsCh, chClosed, ingestStatus,
                   sent, received, rangeLoop, closes>>

\* for res := range resultsCh: a result is received; with the context
\* cancelled the loop breaks, otherwise the result is recorded or chunked and
\* handed to its embedding goroutine, and the loop goes on
RangeReceive ==
    /\ rangeLoop = "range"
    /\ buffered > 0
    /\ received' = received + 1
    /\ rangeLoop' = IF ctxDone THEN "break" ELSE "range"
    /\ UNCHANGED <<exVars, ingestStatus, sent, closes>>

\* the channel is closed and empty: the loop ends
RangeEnd ==
    /\ rangeLoop = "range"
    /\ buffered = 0
    /\ chClosed
    /\ rangeLoop' = "end"
    /\ UNCHANGED <<exVars, ingestStatus, sent, received, closes>>

notResults == <<lruVars, embVars, serverOwn, msgsFile, savers, search, docFiles, fileChunks,
                vectorFiles, saveCall, loadCall, pdfFile, pdfCall, cosCall, batchWrite,
                holders, tasks>>

ResSelectCancelStep == \E f \in Files : ResSelectCancel(f) /\ UNCHANGED notResults

ResExtractStep == \E f \in Files : ResExtract(f) /\ UNCHANGED notResults

ResOtherStep == \E f \in Files : ResOther(f) /\ UNCHANGED notResults

ResCloseStep == ResClose /\ UNCHANGED notResults

ResCancelStep == ResCancel /\ UNCHANGED notResults

RangeReceiveStep == RangeReceive /\ UNCHANGED notResults

RangeEndStep == RangeEnd /\ UNCHANGED notResults

NextResults ==
    \/ ResSelectCancelStep
    \/ ResExtractStep
    \/ ResOtherStep
    \/ ResCloseStep
    \/ ResCancelStep
    \/ RangeReceiveStep
    \/ RangeEndStep

\* every goroutine that can take a step takes one in the end: an extraction
\* returns, a goroutine that is not blocked is scheduled; nobody has to cancel
SpecResults ==
    /\ InitResults
    /\ [][NextResults]_vars
    /\ WF_vars(ResSelectCancelStep)
    /\ WF_vars(ResExtractStep)
    /\ WF_vars(ResOtherStep)
    /\ WF_vars(ResCloseStep)
    /\ WF_vars(RangeReceiveStep)
    /\ WF_vars(RangeEndStep)

\* task f is at a send on resultsCh
AtSend(f) == extractTask[f].pc = "extract" \/ (extractTask[f].pc = "select" /\ ctxDone)

\* task f has passed its send
PastSend(f) == extractTask[f].pc \in {"bump", "write", "release", "done"}

\* the loop over resultsCh is over
LoopOver == rangeLoop \in {"break", "end"}

\* no task sends twice or blocks at its send, and the channel is closed at
\* most once and only after every task has sent its one result
ResultsProtocol ==
    /\ \A f \in Files : sent[f] = (IF PastSend(f) THEN 1 ELSE 0)
    /\ \A f \in Files : AtSend(f) => SendReturns
    /\ closes <= 1
    /\ chClosed <=> closes = 1
    /\ chClosed => \A f \in Files : sent[f] = 1

\* C39: in a run over n files every extraction task sends exactly one result
\* on resultsCh and never blocks doing so, the channel is closed exactly once
\* and only after all n tasks have sent, and the consumer loop always
\* terminates, also when cancellation makes it stop reading early.
C39_ResultsChannel ==
    /\ []ResultsProtocol
    /\ <>[](closes = 1 /\ \A f \in Files : sent[f] = 1)
    /\ <>[]LoopOver

\* the loop broke on cancellation with results left in the channel, every
\* task has sent and the channel is closed
C39_Witness ==
    /\ nFiles = MaxSendFiles
    /\ rangeLoop = "break"
    /\ buffered >= 2
    /\ chClosed
    /\ \E f \in Files : extractTask[f].sawCancel
    /\ \E f \in Files : extractTask[f].ran

====
